---- MODULE Spec2Model ----
(***************************************************************************)
(* A model of uvm's environment registry (src/src/uvm/core/registry.py),  *)
(* of the path helpers it uses (src/src/uvm/utilities/path_utils.py) and   *)
(* of create_environment (src/src/uvm/core/env_manager.py).                *)
(*                                                                         *)
(* Spec   : every public method of Registry is one atomic action.          *)
(* SpecW  : _write_payload and _file_lock step by step, several writers.   *)
(* SpecT  : threads that share one Registry.                               *)
(* SpecP  : two processes, each with its own Registry, and foreign files.  *)
(* SpecL  : the memory lock and the file lock, with fairness.              *)
(* SpecF  : with_update, the path checks and create_environment.           *)
(*                                                                         *)
(* Representation.                                                         *)
(*   - a pathlib.Path is the sequence of its parts ("/" first when the     *)
(*     path is absolute), so str(path) and Path(str) are inverse; the      *)
(*     modelled filesystem has no symbolic links;                          *)
(*   - a datetime is [kind, t, off]: t the wall-clock hour, off the UTC    *)
(*     offset in hours; its ISO-8601 text is [kind |-> "iso", t, off];     *)
(*   - a dict that the code iterates (Registry._entries) is a sequence of  *)
(*     [k, v] pairs in insertion order; a JSON object is a function;       *)
(*   - a metadata dict is the set of its <<key, value>> pairs;             *)
(*   - a call's outcome is [ok |-> TRUE, val |-> v] or                     *)
(*     [ok |-> FALSE, exc |-> "Name"].                                     *)
(***************************************************************************)
EXTENDS Integers, Sequences, FiniteSets, TLC

VARIABLES
    store,      \* store[s] = [entries, loaded]: Registry._entries, Registry._loaded
    file,       \* content of the registry file (Registry._path)
    exists,     \* the directories that exist on the filesystem
    last,       \* the call that returned last: method, arguments, outcome
    pc,         \* SpecW: where each writer stands in _write_payload
    pending,    \* SpecW: the payload each writer was called with
    tmp,        \* SpecW: each writer's temporary file
    flock,      \* SpecW: the writers holding the advisory lock on the lock file
    leftover    \* temporary files that a failed unlink left behind

vars == <<store, file, exists, last, pc, pending, tmp, flock, leftover>>

(***************************************************************************)
(* Bounds of the model.                                                    *)
(***************************************************************************)
\* created_at hours of the entries handed to the registry range over 0..MaxHour
MaxHour == 1
\* at most this many temporary files are left behind by failed unlinks
MaxLeftover == 1

REGISTRY_VERSION == 1

\* Python's None, and None where the other values are strings
None == [kind |-> "none"]
NoVersion == "<None>"

Ok(v) == [ok |-> TRUE, val |-> v]
Raise(e) == [ok |-> FALSE, exc |-> e]

(***************************************************************************)
(* path_utils.py                                                           *)
(***************************************************************************)
\* Path.home() and the working directory of the process
Home == <<"/", "h">>
Cwd == <<"/", "w">>
\* the value of UVM_HOME in the environ mapping handed to Registry
UvmHome == <<"/", "h">>

IsAbsolute(p) == Len(p) > 0 /\ p[1] = "/"

\* Path.expanduser(): a leading "~" becomes the home directory
ExpandUser(p) == IF Len(p) > 0 /\ p[1] = "~" THEN Home \o Tail(p) ELSE p

\* expand_user_path, given the expanded path
CheckNotEmpty(path) == IF Len(path) = 0 THEN Raise("InvalidPathError") ELSE Ok(path)

\* expand_user_path
expand_user_path(p) == CheckNotEmpty(ExpandUser(p))

RECURSIVE Collapse(_, _)
\* the ".." handling of Path.resolve(strict=False) without symbolic links
Collapse(done, rest) ==
    IF rest = <<>> THEN done
    ELSE IF Head(rest) = ".."
         THEN Collapse(IF Len(done) > 1 THEN SubSeq(done, 1, Len(done) - 1) ELSE done,
                       Tail(rest))
         ELSE Collapse(Append(done, Head(rest)), Tail(rest))

\* Path.resolve(strict=False)
Resolve(p) == IF IsAbsolute(p) THEN Collapse(<<"/">>, Tail(p))
              ELSE Collapse(Cwd, p)

\* normalize_env_path, given the outcome of expand_user_path
ResolveExpanded(e) == IF e.ok THEN Ok(Resolve(e.val)) ELSE e

\* normalize_env_path
normalize_env_path(p) == ResolveExpanded(expand_user_path(p))

\* _contains_traversal
ContainsTraversal(p) == \E i \in DOMAIN p : p[i] = ".."

\* validate_safe_path, given the outcome of normalize_env_path
RequireAbsolute(n) ==
    IF ~n.ok THEN n
    ELSE IF ~IsAbsolute(n.val) THEN Raise("InvalidPathError")
    ELSE n

\* a path component with a NUL byte in it
NulPart == "<NUL>"
\* "\x00" in raw_str
HasNul(p) == \E i \in DOMAIN p : p[i] = NulPart

\* Path.relative_to(root) succeeds
IsRelativeTo(p, root) == Len(p) >= Len(root) /\ SubSeq(p, 1, Len(root)) = root

\* is_within_home, given the outcome of normalize_env_path
WithinHome(n) == n.ok /\ IsRelativeTo(n.val, Resolve(Home))

\* is_within_home
is_within_home(p) == WithinHome(normalize_env_path(p))

\* validate_safe_path, given the normalised absolute path
RequireHome(n, allow_outside_home) ==
    IF ~n.ok THEN n
    ELSE IF ~allow_outside_home /\ ~is_within_home(n.val) THEN Raise("InvalidPathError")
    ELSE n

\* a variant of validate_safe_path without the test for ".."
ValidateSafePathNoTraversalTest(p, allow_outside_home) ==
    IF HasNul(p) THEN Raise("InvalidPathError")
    ELSE RequireHome(RequireAbsolute(normalize_env_path(p)), allow_outside_home)

\* validate_safe_path
validate_safe_path(p, allow_outside_home) ==
    IF HasNul(p) THEN Raise("InvalidPathError")
    ELSE IF ContainsTraversal(p) THEN Raise("InvalidPathError")
    ELSE RequireHome(RequireAbsolute(normalize_env_path(p)), allow_outside_home)

\* validate_safe_path(value, allow_outside_home=True)
validate_safe_path_any(p) == validate_safe_path(p, TRUE)

\* get_managed_env_root
managed_env_root == Resolve(UvmHome \o <<"envs">>)

\* a variant of ensure_managed_env_path that admits every path it has validated
RequireManagedAdmitsAll(normalized) == normalized

\* ensure_managed_env_path, given the outcome of validate_safe_path
RequireManaged(normalized) ==
    IF ~normalized.ok THEN normalized
    ELSE IF ~IsRelativeTo(normalized.val, managed_env_root)
         THEN Raise("OutsideManagedRootError")
    ELSE normalized

\* ensure_managed_env_path
ensure_managed_env_path(p) == RequireManaged(validate_safe_path_any(p))

(***************************************************************************)
(* EnvironmentEntry                                                        *)
(***************************************************************************)
\* str.strip() on the names of the model
Strip(n) == CASE n = " a " -> "a"
              [] n = "  " -> ""
              [] OTHER -> n

\* lexicographic rank of a key, for sorted(...)
Ord(n) == CASE n = "a" -> 1
            [] n = "b" -> 2
            [] OTHER -> 3

\* the created_at normalisation of __post_init__
NormaliseCreatedAt(c) ==
    IF c.kind = "none" THEN c
    ELSE IF c.kind = "naive" THEN [kind |-> "aware", t |-> c.t, off |-> 0]
    ELSE [kind |-> "aware", t |-> c.t - c.off, off |-> 0]

\* a metadata key that is not a string
IntKey == "<1>"

\* _ensure_metadata: the metadata values of the model are mappings
ensure_metadata(m) ==
    IF m = {} THEN Ok({})
    ELSE IF \E pair \in m : pair[1] = IntKey THEN Raise("ValueError")
    ELSE Ok(m)

\* __post_init__ from the existence test on: safe is the outcome of validate_safe_path
\* when the location does not exist
PostInitChecked(name, location, safe, python_version, created_at, is_project_local, md) ==
    IF ~safe.ok THEN safe
    ELSE IF ~md.ok THEN md
    ELSE Ok([name |-> name,
             location |-> location,
             python_version |-> python_version,
             created_at |-> NormaliseCreatedAt(created_at),
             is_project_local |-> is_project_local,
             metadata |-> md.val])

\* __post_init__, given the stripped name and the normalised location
\* (present: the directories that exist when it runs)
PostInit(name, loc, python_version, created_at, is_project_local, metadata, present) ==
    IF name = "" THEN Raise("ValueError")
    ELSE IF ~loc.ok THEN loc
    ELSE PostInitChecked(name, loc.val,
                         IF loc.val \notin present THEN validate_safe_path_any(loc.val)
                         ELSE loc,
                         python_version, created_at, is_project_local,
                         ensure_metadata(metadata))

\* EnvironmentEntry(...): the dataclass constructor followed by __post_init__
NewEntry(name, location, python_version, created_at, is_project_local, metadata, present) ==
    PostInit(Strip(name), normalize_env_path(location), python_version, created_at,
             is_project_local, metadata, present)

\* datetime.isoformat()
IsoFormat(c) == [kind |-> "iso", t |-> c.t, naive |-> c.kind = "naive",
                 off |-> IF c.kind = "naive" THEN 0 ELSE c.off]

\* datetime.fromisoformat()
FromIsoFormat(s) == IF s.naive THEN [kind |-> "naive", t |-> s.t]
                    ELSE [kind |-> "aware", t |-> s.t, off |-> s.off]

\* a variant of to_dict that drops the metadata
ToDictNoMetadata(e) ==
    [name |-> e.name,
     location |-> e.location,
     python_version |-> e.python_version,
     created_at |-> IF e.created_at.kind # "none" THEN IsoFormat(e.created_at) ELSE None,
     is_project_local |-> e.is_project_local,
     metadata |-> {}]

\* EnvironmentEntry.to_dict
to_dict(e) ==
    [name |-> e.name,
     location |-> e.location,
     python_version |-> e.python_version,
     created_at |-> IF e.created_at.kind # "none" THEN IsoFormat(e.created_at) ELSE None,
     is_project_local |-> e.is_project_local,
     metadata |-> e.metadata]

\* dict.get(key, default)
DictGet(d, key, default) == IF key \in DOMAIN d THEN d[key] ELSE default

\* from_dict: datetime.fromisoformat(created_at_raw) if created_at_raw else None
ParseCreatedAt(created_at_raw) ==
    IF created_at_raw # None THEN FromIsoFormat(created_at_raw) ELSE None

\* from_dict: the call of cls(...), its arguments evaluated
FromDictFields(name, loc, python_version, created_at, is_project_local, md, present) ==
    IF ~loc.ok THEN loc
    ELSE IF ~md.ok THEN md
    ELSE NewEntry(name, loc.val, python_version, created_at, is_project_local, md.val,
                  present)

\* datetime.fromisoformat(value) raises TypeError: the value is not a text
NotIsoText(created_at_raw) == created_at_raw.kind \notin {"none", "iso"}

\* EnvironmentEntry.from_dict
from_dict(payload, present) ==
    IF ~({"name", "location"} \subseteq DOMAIN payload) THEN Raise("RegistryCorruptedError")
    ELSE IF NotIsoText(DictGet(payload, "created_at", None)) THEN Raise("TypeError")
    ELSE FromDictFields(payload.name,
                        normalize_env_path(payload.location),
                        DictGet(payload, "python_version", NoVersion),
                        ParseCreatedAt(DictGet(payload, "created_at", None)),
                        DictGet(payload, "is_project_local", FALSE),
                        ensure_metadata(DictGet(payload, "metadata", {})),
                        present)

\* dict.update(changes) on a copy of d
Merge(d, changes) ==
    [k \in DOMAIN d \cup DOMAIN changes |-> IF k \in DOMAIN changes THEN changes[k] ELSE d[k]]

\* a variant of with_update that sets the changed attributes without the
\* constructor
WithUpdateReplace(e, changes, present) ==
    [self |-> e,
     out |-> Ok([k \in DOMAIN e |-> IF k \in DOMAIN changes THEN changes[k] ELSE e[k]])]

\* EnvironmentEntry.with_update: the entry it is called on, as it leaves it, and
\* its outcome
with_update(e, changes, present) ==
    [self |-> e, out |-> from_dict(Merge(to_dict(e), changes), present)]

(***************************************************************************)
(* Dictionaries in insertion order                                         *)
(***************************************************************************)
Keys(m) == {m[i].k : i \in DOMAIN m}
KeyList(m) == [i \in DOMAIN m |-> m[i].k]
Values(m) == [i \in DOMAIN m |-> m[i].v]
\* dict.get(key): None when the key is absent
Lookup(m, key) == IF key \in Keys(m) THEN m[CHOOSE i \in DOMAIN m : m[i].k = key].v
                  ELSE None
\* a variant of d[key] = value that keeps the value of a present key
PutKeepOld(m, key, value) ==
    IF key \in Keys(m) THEN m ELSE Append(m, [k |-> key, v |-> value])

\* d[key] = value: a present key keeps its place, a new key goes last
Put(m, key, value) ==
    IF key \in Keys(m)
    THEN [i \in DOMAIN m |-> IF m[i].k = key THEN [k |-> key, v |-> value] ELSE m[i]]
    ELSE Append(m, [k |-> key, v |-> value])
LeaveOut(x, key) == x.k # key
\* del d[key]
Del(m, key) == SelectSeq(m, LAMBDA x : LeaveOut(x, key))

\* min(S) in the order of sorted(...)
Least(S) == CHOOSE x \in S : \A y \in S : Ord(x) <= Ord(y)

RECURSIVE Sorted(_)
\* sorted(keys)
Sorted(S) == IF S = {} THEN <<>> ELSE <<Least(S)>> \o Sorted(S \ {Least(S)})

(***************************************************************************)
(* The registry file                                                       *)
(***************************************************************************)
Absent == [kind |-> "absent"]
\* a JSON value that is no object
JsonScalar == [kind |-> "scalar"]
EmptyObject == [k \in {} |-> None]

\* _serialise_entries
\* the JSON values a version field is given in the model: an integer, a number
\* with a fraction (n its integer part), a text (of digits, n its value, or
\* not) and null
JsonInt(n) == [t |-> "int", n |-> n]
JsonFloat(n) == [t |-> "float", n |-> n]
JsonDigits(n) == [t |-> "str", digits |-> TRUE, n |-> n]
JsonText == [t |-> "str", digits |-> FALSE]
JsonNull == [t |-> "null"]

\* int(value) in _deserialise_entries: TypeError and ValueError are caught and
\* raised as RegistryCorruptedError
IntOf(v) ==
    IF v.t \in {"int", "float"} THEN Ok(v.n)
    ELSE IF v.t = "str" /\ v.digits THEN Ok(v.n)
    ELSE Raise("RegistryCorruptedError")

serialise_entries(entries) ==
    [version |-> JsonInt(REGISTRY_VERSION),
     environments |-> [n \in Keys(entries) |-> to_dict(Lookup(entries, n))]]

\* {**entry_payload, "name": entry_payload.get("name", name)}
WithName(entry_payload, name) ==
    [k \in DOMAIN entry_payload \cup {"name"} |->
       IF k = "name" THEN DictGet(entry_payload, "name", name) ELSE entry_payload[k]]

RECURSIVE DeserialiseLoop(_, _, _, _)
RECURSIVE DeserialiseNext(_, _, _, _, _)
\* the for loop of _deserialise_entries
DeserialiseLoop(names, environments, entries, present) ==
    IF names = <<>> THEN Ok(entries)
    ELSE IF environments[Head(names)] = JsonScalar THEN Raise("RegistryCorruptedError")
    ELSE DeserialiseNext(names, environments, entries, present,
                         from_dict(WithName(environments[Head(names)], Head(names)),
                                   present))

\* a variant of the loop body that stores the entry under the key of its record
DeserialiseNextUnderKey(names, environments, entries, present, entry) ==
    IF ~entry.ok THEN entry
    ELSE DeserialiseLoop(Tail(names), environments,
                         Put(entries, Head(names), entry.val), present)

\* the end of the loop body: entries[entry.name] = entry
DeserialiseNext(names, environments, entries, present, entry) ==
    IF ~entry.ok THEN entry
    ELSE DeserialiseLoop(Tail(names), environments,
                         Put(entries, entry.val.name, entry.val), present)

\* a variant of _deserialise_entries that does not compare the version
DeserialiseCheckedAnyVersion(version, environments, present) ==
    IF environments = JsonScalar THEN Raise("RegistryCorruptedError")
    ELSE DeserialiseLoop(Sorted(DOMAIN environments), environments, <<>>, present)

\* a variant of _deserialise_entries that reads environments that are not an
\* object as no environments
DeserialiseCheckedLenient(version, environments, present) ==
    IF ~version.ok THEN version
    ELSE IF version.val # REGISTRY_VERSION THEN Raise("RegistryCorruptedError")
    ELSE IF environments = JsonScalar THEN Ok(<<>>)
    ELSE DeserialiseLoop(Sorted(DOMAIN environments), environments, <<>>, present)

\* _deserialise_entries, given the version and the environments of the payload
DeserialiseChecked(version, environments, present) ==
    IF ~version.ok THEN version
    ELSE IF version.val # REGISTRY_VERSION THEN Raise("RegistryCorruptedError")
    ELSE IF environments = JsonScalar THEN Raise("RegistryCorruptedError")
    ELSE DeserialiseLoop(Sorted(DOMAIN environments), environments, <<>>, present)

\* _deserialise_entries
deserialise_entries(payload, present) ==
    DeserialiseChecked(IntOf(DictGet(payload, "version", JsonInt(REGISTRY_VERSION))),
                       DictGet(payload, "environments", EmptyObject), present)

\* json.dump(payload, handle) followed by the newline: the complete text
JsonDump(payload) == [kind |-> "object", data |-> payload]
\* what a file holds when json.dump stops half way: a prefix of the text
JsonPartial(payload) == [kind |-> "partial", data |-> payload]
\* what a file holds right after open("w")
EmptyFile == [kind |-> "empty"]

\* Registry._read_payload
read_payload(f, present) ==
    IF f = Absent THEN Ok(<<>>)
    ELSE IF f.kind \in {"empty", "partial", "garbage"} THEN Raise("RegistryCorruptedError")
    ELSE IF f.kind # "object" THEN Raise("RegistryCorruptedError")
    ELSE deserialise_entries(f.data, present)

\* Registry.__init__
NewRegistry == [entries |-> <<>>, loaded |-> FALSE]

\* the end of Registry._ensure_loaded, given the outcome of _read_payload
Loaded(payload) ==
    IF ~payload.ok THEN payload ELSE Ok([entries |-> payload.val, loaded |-> TRUE])

\* what a variant of _ensure_loaded that starts afresh from a file it cannot
\* read makes of the read
LoadedOrEmpty(payload) ==
    IF ~payload.ok THEN Ok([entries |-> <<>>, loaded |-> TRUE])
    ELSE Ok([entries |-> payload.val, loaded |-> TRUE])

\* a variant of _ensure_loaded that starts afresh from a file it cannot read
EnsureLoadedRepairs(st, f, present) ==
    IF st.loaded THEN Ok(st)
    ELSE IF f = Absent THEN Ok([entries |-> <<>>, loaded |-> TRUE])
    ELSE LoadedOrEmpty(read_payload(f, present))

\* a variant of _ensure_loaded that reads the file at every call
EnsureLoadedAlways(st, f, present) ==
    IF f = Absent THEN Ok([entries |-> <<>>, loaded |-> TRUE])
    ELSE Loaded(read_payload(f, present))

\* Registry._ensure_loaded: the store afterwards, or the exception
ensure_loaded(st, f, present) ==
    IF st.loaded THEN Ok(st)
    ELSE IF f = Absent THEN Ok([entries |-> <<>>, loaded |-> TRUE])
    ELSE Loaded(read_payload(f, present))

(***************************************************************************)
(* The values the calls of the model are made with                         *)
(***************************************************************************)
\* the Registry instances, one per process
Stores == {1, 2}
\* Spec follows the calls made on the first instance
Writers == {1}
Names == {"a", "b"}
ManagedDir == <<"/", "h", "envs", "e1">>
OtherDir == <<"/", "w", "e2">>
Dirs == {ManagedDir, OtherDir}
Meta == {<<"created_by", "test">>}
Aware(t, off) == [kind |-> "aware", t |-> t, off |-> off]
Naive(t) == [kind |-> "naive", t |-> t]

\* arguments of EnvironmentEntry(...), as callers write them
RawEntries ==
    {<<"a", ManagedDir, "3.11", Aware(MaxHour, 1), FALSE, Meta>>,
     <<" a ", <<"~", "envs", "e1">>, NoVersion, None, FALSE, {}>>,
     <<"b", <<"e2">>, "3.11", Naive(MaxHour), TRUE, {}>>,
     <<"  ", OtherDir, NoVersion, None, TRUE, {}>>,
     <<"b", <<>>, NoVersion, None, TRUE, {}>>}
    \cup {<<"b", <<"/", "w", "x", "..", "e2">>, NoVersion, Aware(t, 1), TRUE, Meta>> :
            t \in 1..MaxHour}

Construct(r, present) == NewEntry(r[1], r[2], r[3], r[4], r[5], r[6], present)
\* the entries a caller can hold: the constructor returned them, on some filesystem
Entries == UNION {{Construct(r, present).val :
                     r \in {x \in RawEntries : Construct(x, present).ok}} :
                  present \in SUBSET Dirs}

\* whether the persistence write of a call fails with an OS error
Faults == {"none", "fail"}

\* the entries SpecW, SpecT and SpecP add
WEntries == {e \in Entries : e.python_version = "3.11"}

\* a JSON object without one of its keys
Without(d, key) == [k \in DOMAIN d \ {key} |-> d[k]]
\* the record of the entry named a, as to_dict writes it
RecA == to_dict(CHOOSE e \in WEntries : e.name = "a")
\* a registry payload with one record under the key a
OneRecord(r) == [version |-> JsonInt(REGISTRY_VERSION), environments |-> [n \in {"a"} |-> r]]
\* a registry payload with one record under the given key, its name field the
\* given text
Renamed(key, name) ==
    [version |-> JsonInt(REGISTRY_VERSION),
     environments |-> [n \in {key} |-> [RecA EXCEPT !.name = name]]]
\* a registry payload with the given version and the record of a
Versioned(v) == [version |-> v, environments |-> [n \in {"a"} |-> RecA]]

\* what another program can leave at the registry path: texts that are not
\* JSON or not a JSON object, and objects that _serialise_entries does not write
Foreign ==
    {[kind |-> "garbage"], [kind |-> "list"], EmptyFile}
    \cup {JsonDump(Versioned(v)) :
            v \in {JsonInt(2), JsonDigits(1), JsonText, JsonNull, JsonFloat(1)}}
    \cup {JsonDump(Without(Versioned(JsonInt(REGISTRY_VERSION)), "version")),
          JsonDump(Without(Versioned(JsonInt(REGISTRY_VERSION)), "environments")),
          JsonDump([version |-> JsonInt(REGISTRY_VERSION), environments |-> JsonScalar]),
          JsonDump(OneRecord(JsonScalar)),
          JsonDump(OneRecord(Without(RecA, "name"))),
          JsonDump(OneRecord(Without(RecA, "location"))),
          JsonDump(OneRecord([RecA EXCEPT !.name = "  "])),
          JsonDump(Renamed("a", "b")),
          JsonDump(Renamed("b", " a "))}

(***************************************************************************)
(* Registry: the public methods, each as one atomic call                   *)
(***************************************************************************)
\* Registry._write_payload as a whole: the file afterwards and the outcome
write_payload(payload, f, fault) ==
    IF fault = "none" THEN [file |-> JsonDump(payload), out |-> Ok(None)]
    ELSE [file |-> f, out |-> Raise("OSError")]

\* the record of a call: after.op and after.ok tell which call returned before it,
\* and whether that one returned normally
Call(op, s, arg, out) ==
    [op |-> op, s |-> s, arg |-> arg, out |-> out,
     after |-> IF op \in {"get", "sync", "fresh_list"}
               THEN [op |-> last.op, ok |-> last.out.ok]
               ELSE [op |-> "", ok |-> FALSE]]
NoArg == [none |-> TRUE]

\* a method returns or raises without a persistence write; st is the store it leaves
Return(s, st, op, arg, out) ==
    /\ store' = [store EXCEPT ![s] = st]
    /\ last' = Call(op, s, arg, out)
    /\ UNCHANGED <<file, leftover>>

\* the end of a mutating method, given what _write_payload did
Written(s, entries, op, arg, val, w) ==
    /\ store' = [store EXCEPT ![s] = [entries |-> entries, loaded |-> TRUE]]
    /\ file' = w.file
    /\ UNCHANGED leftover
    /\ last' = Call(op, s, arg, IF w.out.ok THEN Ok(val) ELSE w.out)

\* the with-block changed the map to entries; _write_payload follows
Persist(s, entries, op, arg, fault, val) ==
    Written(s, entries, op, arg, val,
            write_payload(serialise_entries(entries), file, fault))

\* a variant of Registry.add that loads and tests for a duplicate name before it
\* calls ensure_managed_env_path
AddBodyDuplicateFirst(s, entry, overwrite, fault, arg, managed, ld) ==
    IF ~ld.ok THEN Return(s, store[s], "add", arg, ld)
    ELSE IF ~overwrite /\ entry.name \in Keys(ld.val.entries)
         THEN Return(s, ld.val, "add", arg, Raise("EntryAlreadyExistsError"))
    ELSE IF ~managed.ok THEN Return(s, ld.val, "add", arg, managed)
    ELSE Persist(s, Put(ld.val.entries, entry.name, entry), "add", arg, fault, None)

\* a variant of Registry.add without the test for a duplicate name
AddBodyNoDuplicateCheck(s, entry, overwrite, fault, arg, managed, ld) ==
    IF ~managed.ok THEN Return(s, store[s], "add", arg, managed)
    ELSE IF ~ld.ok THEN Return(s, store[s], "add", arg, ld)
    ELSE Persist(s, Put(ld.val.entries, entry.name, entry), "add", arg, fault, None)

\* a variant of Registry.add that tests for a duplicate name among the entries
\* whose location exists
AddBodyFreshNames(s, entry, overwrite, fault, arg, managed, ld) ==
    IF ~managed.ok THEN Return(s, store[s], "add", arg, managed)
    ELSE IF ~ld.ok THEN Return(s, store[s], "add", arg, ld)
    ELSE IF /\ ~overwrite
            /\ entry.name \in Keys(ld.val.entries)
            /\ Lookup(ld.val.entries, entry.name).location \in exists
         THEN Return(s, ld.val, "add", arg, Raise("EntryAlreadyExistsError"))
    ELSE Persist(s, Put(ld.val.entries, entry.name, entry), "add", arg, fault, None)

\* Registry.add, given the outcomes of ensure_managed_env_path and _ensure_loaded
AddBody(s, entry, overwrite, fault, arg, managed, ld) ==
    IF ~managed.ok THEN Return(s, store[s], "add", arg, managed)
    ELSE IF ~ld.ok THEN Return(s, store[s], "add", arg, ld)
    ELSE IF ~overwrite /\ entry.name \in Keys(ld.val.entries)
         THEN Return(s, ld.val, "add", arg, Raise("EntryAlreadyExistsError"))
    ELSE Persist(s, Put(ld.val.entries, entry.name, entry), "add", arg, fault, None)

\* Registry.add
Add(s, entry, overwrite, require_managed, fault) ==
    /\ UNCHANGED <<exists, pc, pending, tmp, flock>>
    /\ AddBody(s, entry, overwrite, fault,
               [entry |-> entry, overwrite |-> overwrite,
                require_managed |-> require_managed, fault |-> fault],
               IF require_managed THEN ensure_managed_env_path(entry.location)
               ELSE Ok(entry.location),
               ensure_loaded(store[s], file, exists))

\* a variant of Registry.update that adds a missing entry
UpdateBodyUpsert(s, entry, fault, arg, ld) ==
    IF ~ld.ok THEN Return(s, store[s], "update", arg, ld)
    ELSE Persist(s, Put(ld.val.entries, entry.name, entry), "update", arg, fault, None)

\* Registry.update, given the outcome of _ensure_loaded
UpdateBody(s, entry, fault, arg, ld) ==
    IF ~ld.ok THEN Return(s, store[s], "update", arg, ld)
    ELSE IF entry.name \notin Keys(ld.val.entries)
         THEN Return(s, ld.val, "update", arg, Raise("EntryNotFoundError"))
    ELSE Persist(s, Put(ld.val.entries, entry.name, entry), "update", arg, fault, None)

\* Registry.update
Update(s, entry, fault) ==
    /\ UNCHANGED <<exists, pc, pending, tmp, flock>>
    /\ UpdateBody(s, entry, fault, [entry |-> entry, fault |-> fault],
                  ensure_loaded(store[s], file, exists))

\* a variant of Registry.remove that persists and returns True for a missing name
RemoveBodyAlwaysPersist(s, name, fault, arg, ld) ==
    IF ~ld.ok THEN Return(s, store[s], "remove", arg, ld)
    ELSE Persist(s, Del(ld.val.entries, name), "remove", arg, fault, TRUE)

\* Registry.remove, given the outcome of _ensure_loaded
RemoveBody(s, name, fault, arg, ld) ==
    IF ~ld.ok THEN Return(s, store[s], "remove", arg, ld)
    ELSE IF name \notin Keys(ld.val.entries)
         THEN Return(s, ld.val, "remove", arg, Ok(FALSE))
    ELSE Persist(s, Del(ld.val.entries, name), "remove", arg, fault, TRUE)

\* Registry.remove
Remove(s, name, fault) ==
    /\ UNCHANGED <<exists, pc, pending, tmp, flock>>
    /\ RemoveBody(s, name, fault, [name |-> name, fault |-> fault],
                  ensure_loaded(store[s], file, exists))

IsStale(x, present) == x.v.location \notin present
IsFresh(x, present) == x.v.location \in present
\* a variant of the list comprehension of Registry.sync that sorts the names
StaleNamesSorted(entries, present) ==
    Sorted({entries[i].k : i \in {j \in DOMAIN entries : IsStale(entries[j], present)}})
\* the list comprehension of Registry.sync
StaleNames(entries, present) == KeyList(SelectSeq(entries, LAMBDA x : IsStale(x, present)))
\* the del loop of Registry.sync
DropStale(entries, present) == SelectSeq(entries, LAMBDA x : IsFresh(x, present))

\* a variant of Registry.sync that persists even when nothing is stale
SyncBodyAlwaysPersist(s, fault, arg, st, stale) ==
    Persist(s, DropStale(st.entries, exists), "sync", arg, fault, stale)

\* Registry.sync, given the loaded store and the stale names
SyncBody(s, fault, arg, st, stale) ==
    IF stale = <<>> THEN Return(s, st, "sync", arg, Ok(<<>>))
    ELSE Persist(s, DropStale(st.entries, exists), "sync", arg, fault, stale)

\* Registry.sync, given the outcome of _ensure_loaded
SyncLoaded(s, fault, arg, ld) ==
    IF ~ld.ok THEN Return(s, store[s], "sync", arg, ld)
    ELSE SyncBody(s, fault, arg, ld.val, StaleNames(ld.val.entries, exists))

\* Registry.sync
Sync(s, fault) ==
    /\ UNCHANGED <<exists, pc, pending, tmp, flock>>
    /\ SyncLoaded(s, fault, [fault |-> fault], ensure_loaded(store[s], file, exists))

\* the return value of Registry.list_environments
Listed(entries, validate, present) ==
    IF ~validate THEN Values(entries) ELSE Values(DropStale(entries, present))

\* a variant of Registry.list_environments that drops from the map the entries
\* it leaves out of its answer
ListBodyPrunes(s, validate, arg, ld) ==
    IF ~ld.ok THEN Return(s, store[s], "list", arg, ld)
    ELSE Return(s, [ld.val EXCEPT !.entries = IF validate THEN DropStale(@, exists) ELSE @],
                "list", arg, Ok(Listed(ld.val.entries, validate, exists)))

\* Registry.list_environments, given the outcome of _ensure_loaded
ListBody(s, validate, arg, ld) ==
    IF ~ld.ok THEN Return(s, store[s], "list", arg, ld)
    ELSE Return(s, ld.val, "list", arg, Ok(Listed(ld.val.entries, validate, exists)))

\* Registry.list_environments
ListEnvironments(s, validate) ==
    /\ UNCHANGED <<exists, pc, pending, tmp, flock>>
    /\ ListBody(s, validate, [validate |-> validate],
                ensure_loaded(store[s], file, exists))

\* a variant of the return value of Registry.get that never looks at the disk
GotUnvalidated(entry, validate, present) == entry

\* the return value of Registry.get, given self._entries.get(name)
Got(entry, validate, present) ==
    IF entry # None /\ validate /\ entry.location \notin present THEN None ELSE entry

\* Registry.get, given the outcome of _ensure_loaded
GetBody(s, name, validate, arg, ld) ==
    IF ~ld.ok THEN Return(s, store[s], "get", arg, ld)
    ELSE Return(s, ld.val, "get", arg,
                Ok(Got(Lookup(ld.val.entries, name), validate, exists)))

\* Registry.get
Get(s, name, validate) ==
    /\ UNCHANGED <<exists, pc, pending, tmp, flock>>
    /\ GetBody(s, name, validate, [name |-> name, validate |-> validate],
               ensure_loaded(store[s], file, exists))

\* a variant of Registry.reload that clears the store and leaves the read to the
\* next call
ReloadBodyLazy(s, ld) == Return(s, NewRegistry, "reload", NoArg, Ok(None))

\* a variant of Registry.reload that keeps the map it has
ReloadBodyKeepsMap(s, ld) == Return(s, store[s], "reload", NoArg, Ok(None))

\* Registry.reload, given the outcome of _ensure_loaded on the cleared store
ReloadBody(s, ld) ==
    IF ~ld.ok THEN Return(s, NewRegistry, "reload", NoArg, ld)
    ELSE Return(s, ld.val, "reload", NoArg, Ok(None))

\* Registry.reload
Reload(s) ==
    /\ UNCHANGED <<exists, pc, pending, tmp, flock>>
    /\ ReloadBody(s, ensure_loaded([entries |-> <<>>, loaded |-> FALSE], file, exists))

\* the outcome of list_environments on a new instance
FreshListed(validate, ld) ==
    IF ~ld.ok THEN ld ELSE Ok(Listed(ld.val.entries, validate, exists))

\* Registry(registry_path=...).list_environments(validate=...): a second instance
\* on the same file, dropped after the call
FreshList(validate) ==
    /\ UNCHANGED <<store, file, exists, pc, pending, tmp, flock, leftover>>
    /\ last' = Call("fresh_list", 0, [validate |-> validate],
                    FreshListed(validate, ensure_loaded(NewRegistry, file, exists)))

\* Registry(registry_path=...): the instance is replaced by a new one on the same file
Open(s) ==
    /\ store' = [store EXCEPT ![s] = NewRegistry]
    /\ last' = Call("open", s, NoArg, Ok(None))
    /\ UNCHANGED <<file, exists, pc, pending, tmp, flock, leftover>>

\* a directory is created or removed behind the registry's back
Mkdir(d) ==
    /\ d \notin exists
    /\ exists' = exists \cup {d}
    /\ last' = Call("mkdir", 0, [dir |-> d], Ok(None))
    /\ UNCHANGED <<store, file, pc, pending, tmp, flock, leftover>>

Rmdir(d) ==
    /\ d \in exists
    /\ exists' = exists \ {d}
    /\ last' = Call("rmdir", 0, [dir |-> d], Ok(None))
    /\ UNCHANGED <<store, file, pc, pending, tmp, flock, leftover>>

\* a variant of the temporary name that is the same for every write
TmpNameShared(w) == 1
\* f"{self._path.name}.tmp-{uuid4().hex}": a name no other write uses
TmpName(w) == w
TmpNames == Stores

Init ==
    /\ store = [s \in Stores |-> NewRegistry]
    /\ file = Absent
    /\ exists \in SUBSET Dirs
    /\ last = [op |-> "init", s |-> 0, arg |-> NoArg, out |-> Ok(None),
               after |-> [op |-> "", ok |-> FALSE]]
    /\ pc = [s \in Stores |-> "idle"]
    /\ pending = [s \in Stores |-> None]
    /\ tmp = [n \in TmpNames |-> Absent]
    /\ flock = {}
    /\ leftover = 0

Next ==
    \/ \E s \in Writers, e \in Entries, ow \in BOOLEAN, rm \in BOOLEAN, f \in Faults :
          Add(s, e, ow, rm, f)
    \/ \E s \in Writers, e \in Entries, f \in Faults : Update(s, e, f)
    \/ \E s \in Writers, n \in Names, f \in Faults : Remove(s, n, f)
    \/ \E s \in Writers, f \in Faults : Sync(s, f)
    \/ \E s \in Writers, v \in BOOLEAN : ListEnvironments(s, v)
    \/ \E s \in Writers, n \in Names, v \in BOOLEAN : Get(s, n, v)
    \/ \E s \in Writers : Reload(s)
    \/ \E s \in Writers : Open(s)
    \/ \E v \in BOOLEAN : FreshList(v)
    \/ \E d \in Dirs : Mkdir(d)
    \/ \E d \in Dirs : Rmdir(d)

Spec == Init /\ [][Next]_vars

(***************************************************************************)
(* SpecP: two processes, each with its own Registry, make atomic calls on  *)
(* the same file, and another program can replace the file's content.      *)
(***************************************************************************)
\* the registry file is written by something that is not a Registry
Tamper(c) ==
    /\ file' = c
    /\ last' = Call("tamper", 0, NoArg, Ok(None))
    /\ UNCHANGED <<store, exists, pc, pending, tmp, flock, leftover>>

InitP == Init /\ exists = Dirs

\* the calls of SpecP: every persistence write goes through
NextP ==
    \/ \E s \in Stores, e \in WEntries, ow \in BOOLEAN : Add(s, e, ow, FALSE, "none")
    \/ \E s \in Stores, e \in WEntries : Update(s, e, "none")
    \/ \E s \in Stores, n \in Names : Remove(s, n, "none")
    \/ \E s \in Stores : Sync(s, "none")
    \/ \E s \in Stores, v \in BOOLEAN : ListEnvironments(s, v)
    \/ \E s \in Stores, n \in Names, v \in BOOLEAN : Get(s, n, v)
    \/ \E s \in Stores : Reload(s)
    \/ \E c \in Foreign : Tamper(c)

SpecP == InitP /\ [][NextP]_vars

(***************************************************************************)
(* SpecW: two processes, each with its own Registry on the same file, call *)
(* add and remove; _ensure_loaded, the with-block and _write_payload are   *)
(* separate steps, and _write_payload is followed statement by statement.  *)
(*   pc: idle -> load -> lflock -> read -> mutate -> lock -> wflock        *)
(*       -> create -> dump -> replace -> unlock -> idle, with cleanup on   *)
(*       the way of a failed write                                         *)
(***************************************************************************)
\* the steps of _write_payload
Writing == {"lock", "wflock", "create", "dump", "replace", "cleanup", "unlock"}

\* the record of the call that returned in the last step: tmp_left tells whether
\* its temporary file is still on the disk, replaced whether it renamed it
\* failed whether a step of its _write_payload raised
WCall(w, out, failed, tmp_left) ==
    [op |-> pending[w].op, s |-> w, out |-> out, failed |-> failed,
     tmp_left |-> tmp_left, unlink_failed |-> pending[w].unlink_failed,
     replaced |-> pending[w].replaced, locked |-> w \in flock]
\* the last step was not a return
Quiet == [op |-> "", s |-> 0, out |-> Ok(None), failed |-> FALSE, tmp_left |-> FALSE,
          unlink_failed |-> FALSE, replaced |-> FALSE, locked |-> FALSE]

\* the call returns or raises
WReturn(w, out, failed) ==
    /\ pc' = [pc EXCEPT ![w] = "idle"]
    /\ pending' = [pending EXCEPT ![w] = None]
    /\ last' = WCall(w, out, failed, FALSE)

\* a method is called: lines 383-384, 421-422, down to the tests of _ensure_loaded
WStart(w, op, arg) ==
    /\ pc[w] = "idle"
    /\ pending' = [pending EXCEPT ![w] =
                     [op |-> op, arg |-> arg, payload |-> None, failed |-> FALSE,
                      unlink_failed |-> FALSE, replaced |-> FALSE]]
    /\ IF store[w].loaded
       THEN pc' = [pc EXCEPT ![w] = "mutate"] /\ UNCHANGED store
       ELSE IF file = Absent
            THEN /\ pc' = [pc EXCEPT ![w] = "mutate"]
                 /\ store' = [store EXCEPT ![w] = [entries |-> <<>>, loaded |-> TRUE]]
            ELSE pc' = [pc EXCEPT ![w] = "load"] /\ UNCHANGED store
    /\ last' = Quiet
    /\ UNCHANGED <<file, exists, tmp, flock, leftover>>

\* _file_lock in _ensure_loaded: the directory and the lock file are there
LoadOpenLock(w) ==
    /\ pc[w] = "load"
    /\ pc' = [pc EXCEPT ![w] = "lflock"]
    /\ last' = Quiet
    /\ UNCHANGED <<store, file, exists, pending, tmp, flock, leftover>>

\* _file_lock in _ensure_loaded: _ensure_directory or the open of the lock file raises
LoadOpenLockFails(w) ==
    /\ pc[w] = "load"
    /\ WReturn(w, Raise("OSError"), FALSE)
    /\ UNCHANGED <<store, file, exists, tmp, flock, leftover>>

\* _file_lock in _ensure_loaded: flock returns once no other handle holds the lock
LoadAcquire(w) ==
    /\ pc[w] = "lflock"
    /\ flock = {}
    /\ flock' = {w}
    /\ pc' = [pc EXCEPT ![w] = "read"]
    /\ last' = Quiet
    /\ UNCHANGED <<store, file, exists, pending, tmp, leftover>>

\* _file_lock in _ensure_loaded: flock raises OSError, which is logged
LoadAcquireFails(w) ==
    /\ pc[w] = "lflock"
    /\ pc' = [pc EXCEPT ![w] = "read"]
    /\ last' = Quiet
    /\ UNCHANGED <<store, file, exists, pending, tmp, flock, leftover>>

\* the end of _ensure_loaded, given the outcome of _read_payload
LoadReadBody(w, payload) ==
    IF ~payload.ok
    THEN WReturn(w, payload, FALSE) /\ UNCHANGED store
    ELSE /\ store' = [store EXCEPT ![w] = [entries |-> payload.val, loaded |-> TRUE]]
         /\ pc' = [pc EXCEPT ![w] = "mutate"]
         /\ last' = Quiet
         /\ UNCHANGED pending

\* a variant of _ensure_loaded that keeps the file lock once it has read
LoadReadKeepsLock(w) ==
    /\ pc[w] = "read"
    /\ UNCHANGED flock
    /\ LoadReadBody(w, read_payload(file, exists))
    /\ UNCHANGED <<file, exists, tmp, leftover>>

\* _read_payload under _file_lock, and the unlock when the with-block is left
LoadRead(w) ==
    /\ pc[w] = "read"
    /\ flock' = flock \ {w}
    /\ LoadReadBody(w, read_payload(file, exists))
    /\ UNCHANGED <<file, exists, tmp, leftover>>

\* a variant of the with-block that serialises the map before it changes it
WSerialiseStale(w, entries) ==
    /\ store' = [store EXCEPT ![w] = [entries |-> entries, loaded |-> TRUE]]
    /\ pending' = [pending EXCEPT ![w].payload = serialise_entries(store[w].entries),
                                  ![w].arg = NoArg]
    /\ pc' = [pc EXCEPT ![w] = "lock"]
    /\ last' = Quiet

\* the map is changed to entries and serialised; _write_payload is entered
WSerialise(w, entries) ==
    /\ store' = [store EXCEPT ![w] = [entries |-> entries, loaded |-> TRUE]]
    /\ pending' = [pending EXCEPT ![w].payload = serialise_entries(entries),
                                  ![w].arg = NoArg]
    /\ pc' = [pc EXCEPT ![w] = "lock"]
    /\ last' = Quiet

\* the rest of the with-block of add (385-390) and of remove (423-426)
WMutateBody(w, op, arg, entries) ==
    IF op = "add"
    THEN IF ~arg.overwrite /\ arg.entry.name \in Keys(entries)
         THEN WReturn(w, Raise("EntryAlreadyExistsError"), FALSE) /\ UNCHANGED store
         ELSE WSerialise(w, Put(entries, arg.entry.name, arg.entry))
    ELSE IF arg.name \notin Keys(entries)
         THEN WReturn(w, Ok(FALSE), FALSE) /\ UNCHANGED store
         ELSE WSerialise(w, Del(entries, arg.name))

WMutate(w) ==
    /\ pc[w] = "mutate"
    /\ WMutateBody(w, pending[w].op, pending[w].arg, store[w].entries)
    /\ UNCHANGED <<file, exists, tmp, flock, leftover>>

\* _ensure_directory or the open of the lock file raises: nothing was locked or written
WOpenLockFails(w) ==
    /\ pc[w] = "lock"
    /\ WReturn(w, Raise("OSError"), TRUE)
    /\ UNCHANGED <<store, file, exists, tmp, flock, leftover>>

\* _ensure_directory and _file_lock in _write_payload: the directory and the lock
\* file are there
WOpenLock(w) ==
    /\ pc[w] = "lock"
    /\ pc' = [pc EXCEPT ![w] = "wflock"]
    /\ last' = Quiet
    /\ UNCHANGED <<store, file, exists, pending, tmp, flock, leftover>>

\* a variant of the acquisition that does not wait for the holder of the lock
WAcquireNoWait(w) ==
    /\ pc[w] = "wflock"
    /\ flock' = flock \cup {w}
    /\ pc' = [pc EXCEPT ![w] = "create"]
    /\ last' = Quiet
    /\ UNCHANGED <<store, file, exists, pending, tmp, leftover>>

\* _file_lock in _write_payload: flock returns once no other handle holds the lock
WAcquire(w) ==
    /\ pc[w] = "wflock"
    /\ flock = {}
    /\ flock' = {w}
    /\ pc' = [pc EXCEPT ![w] = "create"]
    /\ last' = Quiet
    /\ UNCHANGED <<store, file, exists, pending, tmp, leftover>>

\* a variant of the failed acquisition that lets the OSError reach the caller
WAcquireFailsRaises(w) ==
    /\ pc[w] = "wflock"
    /\ WReturn(w, Raise("OSError"), TRUE)
    /\ UNCHANGED <<store, file, exists, tmp, flock, leftover>>

\* _file_lock in _write_payload: flock raises OSError, which is logged
WAcquireFails(w) ==
    /\ pc[w] = "wflock"
    /\ pc' = [pc EXCEPT ![w] = "create"]
    /\ last' = Quiet
    /\ UNCHANGED <<store, file, exists, pending, tmp, flock, leftover>>

\* tmp_path.open("w"): the temporary file is created, or truncated, and empty
CreateTmp(w) ==
    /\ pc[w] = "create"
    /\ tmp' = [tmp EXCEPT ![TmpName(w)] = EmptyFile]
    /\ pc' = [pc EXCEPT ![w] = "dump"]
    /\ last' = Quiet
    /\ UNCHANGED <<store, file, exists, pending, flock, leftover>>

\* tmp_path.open("w") raises
CreateTmpFails(w) ==
    /\ pc[w] = "create"
    /\ pending' = [pending EXCEPT ![w].failed = TRUE]
    /\ pc' = [pc EXCEPT ![w] = "cleanup"]
    /\ last' = Quiet
    /\ UNCHANGED <<store, file, exists, tmp, flock, leftover>>

\* json.dump, the newline and the close of the handle
Dump(w) ==
    /\ pc[w] = "dump"
    /\ tmp' = [tmp EXCEPT ![TmpName(w)] = JsonDump(pending[w].payload)]
    /\ pc' = [pc EXCEPT ![w] = "replace"]
    /\ last' = Quiet
    /\ UNCHANGED <<store, file, exists, pending, flock, leftover>>

\* json.dump or the write raises half way
DumpFails(w) ==
    /\ pc[w] = "dump"
    /\ tmp' = [tmp EXCEPT ![TmpName(w)] = JsonPartial(pending[w].payload)]
    /\ pending' = [pending EXCEPT ![w].failed = TRUE]
    /\ pc' = [pc EXCEPT ![w] = "cleanup"]
    /\ last' = Quiet
    /\ UNCHANGED <<store, file, exists, flock, leftover>>

\* tmp_path.replace(self._path): one rename
Replace(w) ==
    /\ pc[w] = "replace"
    /\ file' = tmp[TmpName(w)]
    /\ tmp' = [tmp EXCEPT ![TmpName(w)] = Absent]
    /\ pending' = [pending EXCEPT ![w].replaced = TRUE]
    /\ pc' = [pc EXCEPT ![w] = "unlock"]
    /\ last' = Quiet
    /\ UNCHANGED <<store, exists, flock, leftover>>

\* tmp_path.replace raises
ReplaceFails(w) ==
    /\ pc[w] = "replace"
    /\ pending' = [pending EXCEPT ![w].failed = TRUE]
    /\ pc' = [pc EXCEPT ![w] = "cleanup"]
    /\ last' = Quiet
    /\ UNCHANGED <<store, file, exists, tmp, flock, leftover>>

\* a variant of the except clause that leaves the temporary file
CleanupKeepsFile(w) ==
    /\ pc[w] = "cleanup"
    /\ pc' = [pc EXCEPT ![w] = "unlock"]
    /\ last' = Quiet
    /\ UNCHANGED <<store, file, exists, pending, tmp, flock, leftover>>

\* the except clause: tmp_path.unlink() when the file exists
Cleanup(w) ==
    /\ pc[w] = "cleanup"
    /\ tmp' = [tmp EXCEPT ![TmpName(w)] = Absent]
    /\ pc' = [pc EXCEPT ![w] = "unlock"]
    /\ last' = Quiet
    /\ UNCHANGED <<store, file, exists, pending, flock, leftover>>

\* the except clause: tmp_path.unlink() raises OSError, which is logged
CleanupFails(w) ==
    /\ pc[w] = "cleanup"
    /\ tmp[TmpName(w)] # Absent
    /\ leftover < MaxLeftover
    /\ pending' = [pending EXCEPT ![w].unlink_failed = TRUE]
    /\ pc' = [pc EXCEPT ![w] = "unlock"]
    /\ last' = Quiet
    /\ UNCHANGED <<store, file, exists, tmp, flock, leftover>>

\* the with-block of _file_lock is left: unlock, then return or re-raise; a
\* temporary file that is still there stays on the disk under its own name
Unlock(w) ==
    /\ pc[w] = "unlock"
    /\ flock' = flock \ {w}
    /\ pc' = [pc EXCEPT ![w] = "idle"]
    /\ last' = WCall(w, IF pending[w].failed THEN Raise("OSError")
                        ELSE Ok(IF pending[w].op = "remove" THEN TRUE ELSE None),
                     pending[w].failed, tmp[TmpName(w)] # Absent)
    /\ leftover' = IF tmp[TmpName(w)] # Absent THEN leftover + 1 ELSE leftover
    /\ tmp' = [tmp EXCEPT ![TmpName(w)] = Absent]
    /\ pending' = [pending EXCEPT ![w] = None]
    /\ UNCHANGED <<store, file, exists>>

InitW ==
    /\ store = [s \in Stores |-> NewRegistry]
    /\ file = Absent
    /\ exists = Dirs
    /\ last = Quiet
    /\ pc = [s \in Stores |-> "idle"]
    /\ pending = [s \in Stores |-> None]
    /\ tmp = [n \in TmpNames |-> Absent]
    /\ flock = {}
    /\ leftover = 0

NextW ==
    \/ \E w \in Stores, e \in WEntries, ow \in BOOLEAN :
          WStart(w, "add", [entry |-> e, overwrite |-> ow])
    \/ \E w \in Stores, n \in Names : WStart(w, "remove", [name |-> n])
    \/ \E w \in Stores : LoadOpenLock(w)
    \/ \E w \in Stores : LoadOpenLockFails(w)
    \/ \E w \in Stores : LoadAcquire(w)
    \/ \E w \in Stores : LoadAcquireFails(w)
    \/ \E w \in Stores : LoadRead(w)
    \/ \E w \in Stores : WMutate(w)
    \/ \E w \in Stores : WOpenLock(w)
    \/ \E w \in Stores : WOpenLockFails(w)
    \/ \E w \in Stores : WAcquire(w)
    \/ \E w \in Stores : WAcquireFails(w)
    \/ \E w \in Stores : CreateTmp(w)
    \/ \E w \in Stores : CreateTmpFails(w)
    \/ \E w \in Stores : Dump(w)
    \/ \E w \in Stores : DumpFails(w)
    \/ \E w \in Stores : Replace(w)
    \/ \E w \in Stores : ReplaceFails(w)
    \/ \E w \in Stores : Cleanup(w)
    \/ \E w \in Stores : CleanupFails(w)
    \/ \E w \in Stores : Unlock(w)

SpecW == InitW /\ [][NextW]_vars

(***************************************************************************)
(* Properties of Spec.  last' describes the call a step makes, the         *)
(* unprimed variables the state it was made in.                            *)
(***************************************************************************)
\* the elements of a sequence
Range(q) == {q[i] : i \in DOMAIN q}
\* the place of a key in a dict
IndexOf(m, key) == CHOOSE i \in DOMAIN m : m[i].k = key
\* a sequence without repetition
NoDuplicates(q) == \A i, j \in DOMAIN q : q[i] = q[j] => i = j

\* r, the outcome of reading the file, is exactly the records of entries
Holds(r, entries) ==
    /\ r.ok
    /\ Keys(r.val) = Keys(entries)
    /\ \A k \in Keys(entries) : Lookup(r.val, k) = Lookup(entries, k)

\* the file is there and reading it yields exactly the records of entries
FileHolds(f, entries) == f # Absent /\ Holds(read_payload(f, exists'), entries)

\* the map a method works on: the store's map once _ensure_loaded has run
MapBefore(s) == ensure_loaded(store[s], file, exists).val.entries

\* every record but the one under key is the same, at the same place, in m and n
SameButFor(m, n, key) ==
    /\ Keys(m) \ {key} = Keys(n) \ {key}
    /\ \A k \in Keys(m) \ {key} : Lookup(m, k) = Lookup(n, k)

\* add's call of ensure_managed_env_path, when it makes it, returns
Admitted(arg) ==
    arg.require_managed => ensure_managed_env_path(arg.entry.location).ok

\* what C1 asks of add(e, overwrite=true) on the map before, given the map after
Overwritten(arg, before, after, out, f) ==
    /\ out = Ok(None)
    /\ Lookup(after, arg.entry.name) = arg.entry
    /\ KeyList(after) = KeyList(before)
    /\ SameButFor(after, before, arg.entry.name)
    /\ FileHolds(f, after)

\* what C1 asks of add with arguments arg, from the map before to the map after
AddedDuplicate(arg, before, after, out, f, g) ==
    (Admitted(arg) /\ arg.entry.name \in Keys(before))
    => IF ~arg.overwrite
       THEN /\ out = Raise("EntryAlreadyExistsError")
            /\ after = before
            /\ g = f
       ELSE arg.fault = "none" => Overwritten(arg, before, after, out, g)

\* C1: with name n in the map, add(e) with e.name = n and overwrite=false raises
\* EntryAlreadyExistsError and changes neither the map nor the file, and
\* add(e, overwrite=true) whose write does not fail returns, leaves e under n,
\* every other record as it was, and the full map in the file.
C1_AddDuplicate ==
    [][last'.op = "add"
       => AddedDuplicate(last'.arg, MapBefore(last'.s), store'[last'.s].entries,
                         last'.out, file, file')]_vars

\* C1 witness: add(e, overwrite=true) has replaced the first of two records
C1_Witness ==
    /\ last.op = "add"
    /\ last.arg.overwrite
    /\ last.out.ok
    /\ Len(store[1].entries) = 2
    /\ store[1].entries[1].v = last.arg.entry
    /\ store[1].entries[1].v.created_at # None

\* C2: a new instance that lists the file right after a successful add of another
\* instance returns exactly the records of that instance's map (those whose
\* location exists, under validate), the added entry among them, field by field.
C2_PersistenceRoundTrip ==
    [][(/\ last'.op = "fresh_list"
        /\ last.op = "add"
        /\ last.out.ok)
       => /\ last'.out.ok
          /\ NoDuplicates(last'.out.val)
          /\ Range(last'.out.val) =
               {e \in Range(Values(store[last.s].entries)) :
                  last'.arg.validate => e.location \in exists}
          /\ (last.arg.entry.location \in exists
              => last.arg.entry \in Range(last'.out.val))]_vars

\* C2 witness: the new instance lists two records after an add, one of them with
\* a timestamp and metadata
C2_Witness ==
    /\ last.op = "fresh_list"
    /\ last.after.op = "add"
    /\ last.after.ok
    /\ last.arg.validate
    /\ last.out.ok
    /\ Len(last.out.val) = 2
    /\ \E i \in 1..2 : /\ last.out.val[i].created_at # None
                       /\ last.out.val[i].metadata # {}

\* C3: get(e.name) right after add(e) returned, on the same store and with e's
\* location existing, returns an entry equal to e in every field.
C3_MemoryRoundTrip ==
    [][(/\ last'.op = "get"
        /\ last.op = "add"
        /\ last.out.ok
        /\ last'.s = last.s
        /\ last'.arg.name = last.arg.entry.name
        /\ last.arg.entry.location \in exists)
       => last'.out = Ok(last.arg.entry)]_vars

\* C3 witness: get with validation returned the entry that was just added
C3_Witness ==
    /\ last.op = "get"
    /\ last.after.op = "add"
    /\ last.after.ok
    /\ last.arg.validate
    /\ last.out.ok
    /\ last.out.val # None
    /\ last.out.val.created_at # None

\* the names of the records of a map whose location does not exist
Stale(before) == {k \in Keys(before) : Lookup(before, k).location \notin exists}

\* what C4 asks of a sync that returned out, from the map before to the map after
Synced(before, after, stale, out, g) ==
    /\ out.ok
    /\ Range(out.val) = stale
    /\ NoDuplicates(out.val)
    /\ \A i, j \in DOMAIN out.val :
         i < j => IndexOf(before, out.val[i]) < IndexOf(before, out.val[j])
    /\ Keys(after) = Keys(before) \ stale
    /\ \A k \in Keys(after) : Lookup(after, k) = Lookup(before, k)
    /\ (stale # {} => FileHolds(g, after))

\* C4: a sync whose write does not fail removes exactly the records whose location
\* does not exist, returns their names in the order of the map before it, keeps
\* the other records as they were, and leaves the remaining map in the file.
C4_SyncRemovesStale ==
    [][(last'.op = "sync" /\ last'.arg.fault = "none")
       => Synced(MapBefore(last'.s), store'[last'.s].entries,
                 Stale(MapBefore(last'.s)), last'.out, file')]_vars

\* C4 witness: sync removed one record and kept the other
C4_Witness ==
    /\ last.op = "sync"
    /\ last.out.ok
    /\ Len(last.out.val) = 1
    /\ Len(store[1].entries) = 1
    /\ file # Absent

\* what C5 asks of a sync on a map without stale record
SyncedNothing(before, after, out, f, g) ==
    (\A k \in Keys(before) : Lookup(before, k).location \in exists)
    => /\ out = Ok(<<>>)
       /\ after = before
       /\ g = f

\* C5: a sync on a store without stale record returns an empty list, leaves the map
\* as it was and does not touch the file, whether or not a write would fail; so
\* does a sync that follows a sync that returned, the filesystem being the same.
C5_SyncIdempotent ==
    [][last'.op = "sync"
       => /\ SyncedNothing(MapBefore(last'.s), store'[last'.s].entries, last'.out,
                           file, file')
          /\ (last.op = "sync" /\ last.out.ok /\ last.s = last'.s)
             => last'.out = Ok(<<>>)]_vars

\* C5 witness: a second sync returned the empty list right after a sync that had
\* removed a record
C5_Witness ==
    /\ last.op = "sync"
    /\ last.after.op = "sync"
    /\ last.after.ok
    /\ last.out = Ok(<<>>)
    /\ \E d \in Dirs : d \notin exists

\* what C6 asks of list_environments and get, which leave the map as it was
Read(op, arg, before, after, out) ==
    /\ after = before
    /\ op = "list"
       => /\ out.ok
          /\ NoDuplicates(out.val)
          /\ Range(out.val) =
               {Lookup(before, k) : k \in
                  {n \in Keys(before) : arg.validate
                                         => Lookup(before, n).location \in exists}}
    /\ op = "get"
       => out = Ok(IF /\ arg.name \in Keys(before)
                      /\ (arg.validate => Lookup(before, arg.name).location \in exists)
                   THEN Lookup(before, arg.name)
                   ELSE None)

\* C6: list_environments(validate=false) and get(name, validate=false) return
\* every record of the map; with validate=true list_environments returns the
\* records whose location exists and no other, and get returns None for a record
\* whose location does not exist, the record staying in the map.
C6_ValidateIsLive ==
    [][(last'.op \in {"list", "get"})
       => Read(last'.op, last'.arg, MapBefore(last'.s), store'[last'.s].entries,
               last'.out)]_vars

\* C6 witness: get with validation returned None for a record that is in the map
C6_Witness ==
    /\ last.op = "get"
    /\ last.arg.validate
    /\ last.out = Ok(None)
    /\ last.arg.name \in Keys(store[1].entries)
    /\ Lookup(store[1].entries, last.arg.name).location \notin exists

\* what C7 asks of update with arguments arg, from the map before to the map after
Updated(arg, before, after, out, f, g) ==
    IF arg.entry.name \notin Keys(before)
    THEN /\ out = Raise("EntryNotFoundError")
         /\ after = before
         /\ g = f
    ELSE arg.fault = "none" => Overwritten(arg, before, after, out, g)

\* C7: update(e) raises EntryNotFoundError when e.name is not in the map and then
\* changes neither the map nor the file; when e.name is in the map and the write
\* does not fail it replaces that record only and leaves the full map in the file.
C7_Update ==
    [][last'.op = "update"
       => Updated(last'.arg, MapBefore(last'.s), store'[last'.s].entries,
                  last'.out, file, file')]_vars

\* C7 witness: update raised EntryNotFoundError on a map that holds another record
C7_Witness ==
    /\ last.op = "update"
    /\ last.out = Raise("EntryNotFoundError")
    /\ Len(store[1].entries) = 1
    /\ file # Absent

\* what C8 asks of remove with arguments arg, from the map before to the map after
Removed(arg, before, after, out, f, g) ==
    /\ out = Ok(TRUE) => arg.name \in Keys(before)
    /\ IF arg.name \notin Keys(before)
       THEN /\ out = Ok(FALSE)
            /\ after = before
            /\ g = f
       ELSE arg.fault = "none"
            => /\ out = Ok(TRUE)
               /\ Keys(after) = Keys(before) \ {arg.name}
               /\ SameButFor(after, before, arg.name)
               /\ FileHolds(g, after)

\* C8: remove(name) returns False, without changing the map or the file, when the
\* name is not in the map; when it is and the write does not fail it returns True,
\* deletes that record alone and leaves the full map in the file; it returns True
\* in no other case.
C8_Remove ==
    [][last'.op = "remove"
       => Removed(last'.arg, MapBefore(last'.s), store'[last'.s].entries,
                  last'.out, file, file')]_vars

\* C8 witness: remove returned True and one record is left, in the map and the file
C8_Witness ==
    /\ last.op = "remove"
    /\ last.out = Ok(TRUE)
    /\ Len(store[1].entries) = 1
    /\ file # Absent

\* what add does once the location is admitted: a duplicate name without
\* overwrite is refused, and otherwise the entry is put in the map and the map
\* written
AddOutcome(arg, before, after, out, f, g) ==
    IF ~arg.overwrite /\ arg.entry.name \in Keys(before)
    THEN /\ out = Raise("EntryAlreadyExistsError")
         /\ after = before
         /\ g = f
    ELSE /\ after = Put(before, arg.entry.name, arg.entry)
         /\ IF arg.fault = "none" THEN out = Ok(None) /\ FileHolds(g, after)
            ELSE out = Raise("OSError") /\ g = f

\* C20: add(e, require_managed=true) with e.location outside the managed root
\* raises OutsideManagedRootError, whether or not the name is a duplicate, and
\* leaves store and file as they were; with e.location under the managed root it
\* does what add without require_managed does.
C20_ManagedFirst ==
    [][last'.op = "add"
       => IF /\ last'.arg.require_managed
             /\ ~IsRelativeTo(last'.arg.entry.location, managed_env_root)
          THEN /\ last'.out = Raise("OutsideManagedRootError")
               /\ store' = store
               /\ file' = file
          ELSE AddOutcome(last'.arg, MapBefore(last'.s), store'[last'.s].entries,
                          last'.out, file, file')]_vars

\* add(e, require_managed=true) was refused for its location, the name of e being
\* in the map
C20_Witness ==
    /\ last.op = "add"
    /\ last.arg.require_managed
    /\ ~last.arg.overwrite
    /\ last.out = Raise("OutsideManagedRootError")
    /\ last.arg.entry.name \in Keys(store[last.s].entries)

\* the calls that write the map
Mutating == {"add", "update", "remove", "sync"}

\* C27: when the write of add, update, remove or sync fails, the map of the store
\* is the map it had before the call (so get and list answer as before), and the
\* file is the file of before.
C27_FailedWriteKeepsState ==
    [][(last'.op \in Mutating /\ last'.out = Raise("OSError"))
       => /\ store'[last'.s].entries = MapBefore(last'.s)
          /\ file' = file]_vars

\* the names of the records of the registry file
FileNames(f) == IF f = Absent THEN {} ELSE DOMAIN f.data.environments

\* get or list_environments on a loaded store leaves the store and the file as
\* they were
ReadsNothingChanged ==
    (last'.op \in {"list", "get"} /\ store[last'.s].loaded)
    => /\ store'[last'.s] = store[last'.s]
       /\ file' = file

\* a record of the loaded store s and of the file whose location is missing is
\* still in the file, and in the map if the store is still loaded, after every
\* step but a call of sync or remove
StaleKept(s) ==
    \A n \in Stale(store[s].entries) \cap FileNames(file) :
        (/\ store[s].loaded
         /\ \/ store'[s].loaded /\ n \notin Keys(store'[s].entries)
            \/ n \notin FileNames(file'))
        => last'.op \in {"sync", "remove"}

\* C32: get and list_environments, with either value of validate, leave the map
\* of a loaded store and the registry file unchanged, stale entries or not; a
\* stale record leaves the map or the file only in a call of sync or remove.
C32_ReadsHaveNoEffect ==
    [][ReadsNothingChanged /\ \A s \in Writers : StaleKept(s)]_vars

\* add(e, overwrite=false) of a name that the map before holds with a missing
\* location raises EntryAlreadyExistsError and leaves map and file as they were
StaleNameRefused(arg, before, after, out, f, g) ==
    (/\ ~arg.overwrite
     /\ Admitted(arg)
     /\ arg.entry.name \in Stale(before))
    => /\ Got(Lookup(before, arg.entry.name), TRUE, exists) = None
       /\ out = Raise("EntryAlreadyExistsError")
       /\ after = before
       /\ g = f

\* update(e) of such a name, its write going through, returns and puts e in the
\* map and the map in the file
StaleNameUpdated(arg, before, after, out, g) ==
    (arg.fault = "none" /\ arg.entry.name \in Stale(before))
    => /\ Got(Lookup(before, arg.entry.name), TRUE, exists) = None
       /\ Overwritten(arg, before, after, out, g)

\* add(e, overwrite=false) right after a sync that returned the name of e among
\* the names it removed does not raise EntryAlreadyExistsError
FreedBySync ==
    (/\ last'.op = "add"
     /\ last.op = "sync"
     /\ last.out.ok
     /\ last'.s = last.s
     /\ last'.arg.entry.name \in Range(last.out.val))
    => last'.out # Raise("EntryAlreadyExistsError")

\* C33: for a name whose record is in the map while its location is missing, so
\* that get(name) answers None, add with overwrite=false raises
\* EntryAlreadyExistsError and update succeeds; once sync has removed the record,
\* add of the name is not refused.
C33_PresenceOnRawMap ==
    [][/\ last'.op = "add"
          => StaleNameRefused(last'.arg, MapBefore(last'.s), store'[last'.s].entries,
                              last'.out, file, file')
       /\ last'.op = "update"
          => StaleNameUpdated(last'.arg, MapBefore(last'.s), store'[last'.s].entries,
                              last'.out, file')
       /\ FreedBySync]_vars

\* add with overwrite=false was refused for a name whose record has a missing
\* location, and the record is still in the map
C33_Witness ==
    /\ last.op = "add"
    /\ ~last.arg.overwrite
    /\ last.out = Raise("EntryAlreadyExistsError")
    /\ last.arg.entry.name \in Stale(store[last.s].entries)

\* get with validation, called right after another get that returned, answered
\* None for a record that the map and the file hold
C32_Witness ==
    /\ last.op = "get"
    /\ last.after.op = "get"
    /\ last.after.ok
    /\ last.arg.validate
    /\ last.out = Ok(None)
    /\ last.arg.name \in Keys(store[last.s].entries) \cap FileNames(file)

(***************************************************************************)
(* Properties of SpecW.  last is the call that returned in the last step.  *)
(***************************************************************************)
\* the text is the complete dump of the payload of one map of entries
CompleteText(f, r) ==
    /\ f.kind = "object"
    /\ r.ok
    /\ f = JsonDump(serialise_entries(r.val))

\* C9: in every reachable state, mid-write, after a failed write and while two
\* writers overlap without the lock, the file at the registry path is absent or
\* holds one complete payload, and every change of it is one rename that
\* installs the complete payload of a single writer.
C9_NoPartialWrite ==
    /\ [](file = Absent \/ CompleteText(file, read_payload(file, exists)))
    /\ [][file' # file
          => \E w \in Stores : /\ pc[w] = "replace"
                               /\ pc'[w] = "unlock"
                               /\ file' = JsonDump(pending[w].payload)]_vars

\* two writers are inside _write_payload at once, neither holds the lock, one has
\* left half a text in its temporary file and the registry file is there
C9_Witness ==
    /\ pc[1] \in {"dump", "replace", "cleanup"}
    /\ pc[2] \in {"dump", "replace", "cleanup"}
    /\ flock = {}
    /\ tmp[TmpName(1)].kind = "partial"
    /\ tmp[TmpName(2)].kind = "object"
    /\ file # Absent

\* C10 as stated: when a step of a persistence write fails, the temporary file is
\* deleted, the failure is raised to the caller and the call has not replaced the
\* registry file.
C10_TmpAlwaysDeleted ==
    last.failed => /\ ~last.tmp_left
                   /\ last.out = Raise("OSError")
                   /\ ~last.replaced

\* C10, amended: when a step of a persistence write fails, the failure is raised
\* to the caller and no step of the call changes the registry file; the temporary
\* file is deleted unless its deletion itself fails with an OS error.
C10_WriteFailure ==
    /\ [](last.failed => /\ last.out = Raise("OSError")
                         /\ ~last.replaced
                         /\ (last.tmp_left => last.unlink_failed))
    /\ [][\A w \in Stores :
            (pc'[w] # pc[w] /\ file' # file)
            => /\ pc[w] = "replace"
               /\ ~pending[w].failed
               /\ pc'[w] = "unlock"
               /\ ~pending'[w].failed]_vars

\* a write that had filled the registry file before fails, raises, and its
\* temporary file is gone
C10_Witness ==
    /\ last.failed
    /\ last.out = Raise("OSError")
    /\ ~last.tmp_left
    /\ ~last.unlink_failed
    /\ file # Absent
    /\ \A n \in TmpNames : tmp[n] = Absent

\* the steps between the acquisition and the release of the file lock
Section == {"read", "create", "dump", "replace", "cleanup", "unlock"}

\* C12: at most one process holds the file lock, and a process holds it only
\* inside a file-locked section (the read of a load, or the temporary-file write
\* and rename of a persistence write): two processes are inside such sections at
\* once only when the acquisition of one of them did not succeed.
C12_FileLockSerialises ==
    /\ \A w, v \in flock : w = v
    /\ \A w \in flock : pc[w] \in Section
    /\ \A w, v \in Stores :
         (w # v /\ pc[w] \in Section /\ pc[v] \in Section) => (w \notin flock \/ v \notin flock)

\* process 1 holds the lock with its temporary file written, process 2 waits for it
C12_Witness ==
    /\ 1 \in flock
    /\ pc[1] = "replace"
    /\ tmp[TmpName(1)].kind = "object"
    /\ pc[2] = "wflock"
    /\ file # Absent

\* C13: the rename of a process's write leaves in the registry file exactly the
\* serialisation of that process's own map, as its mutation left it: nothing of
\* what the file held before, written by another process, is merged in.
C13_LastWriterWins ==
    [][\A w \in Stores :
         (pc[w] = "replace" /\ pc'[w] = "unlock")
         => file' = JsonDump(serialise_entries(store[w].entries))]_vars

\* process 1 wrote last: the file holds its map, which lacks a record that
\* process 2 has in its own map
C13_Witness ==
    /\ last.s = 1
    /\ last.replaced
    /\ store[2].loaded
    /\ pc[2] = "idle"
    /\ file = JsonDump(serialise_entries(store[1].entries))
    /\ \E n \in Keys(store[2].entries) : n \notin Keys(store[1].entries)

\* what the read of a load leaves, with or without the lock
ReadDone(w, r) ==
    IF r.ok THEN pc'[w] = "mutate" /\ store'[w] = [entries |-> r.val, loaded |-> TRUE]
    ELSE pc'[w] = "idle" /\ last'.out = r /\ store'[w] = store[w]

\* C19: a flock call that raises ends neither the load nor the write: the call
\* goes on to the read, or to the temporary file, with nothing else changed; the
\* read then gives what the file holds and the write that renamed returns
\* normally, whether the lock is held or not.
C19_LockFailureNotFatal ==
    /\ [][\A w \in Stores :
            /\ (pc[w] = "lflock" /\ pc'[w] # "lflock")
               => pc'[w] = "read" /\ UNCHANGED <<store, file, pending, tmp>>
            /\ (pc[w] = "wflock" /\ pc'[w] # "wflock")
               => pc'[w] = "create" /\ UNCHANGED <<store, file, pending, tmp>>
            /\ (pc[w] = "read" /\ pc'[w] # "read")
               => ReadDone(w, read_payload(file, exists))]_vars
    /\ [](last.replaced => last.out.ok)

\* an add whose flock call had raised has renamed its file and returned
C19_Witness ==
    /\ last.op = "add"
    /\ ~last.locked
    /\ last.replaced
    /\ last.out = Ok(None)
    /\ file # Absent

\* C26 as stated: the in-memory map is mutated and serialised while the process
\* holds the file lock it took before reading the file.
C26_MutationUnderFileLock ==
    [][\A w \in Stores : (pc[w] = "mutate" /\ pc'[w] = "lock") => w \in flock]_vars

\* what a step of process w does, in the amended order: it reads the file only
\* when its store has not loaded, it changes and serialises the map holding no
\* file lock, and it changes the file only in the rename of its locked write
TwoLockedSections(w) ==
    /\ (pc[w] = "idle" /\ pc'[w] = "load") => (~store[w].loaded /\ file # Absent)
    /\ (pc[w] = "idle" /\ store[w].loaded) => pc'[w] \in {"idle", "mutate"}
    /\ store'[w] # store[w] => (pc[w] \in {"idle", "read", "mutate"} /\ w \notin flock')
    /\ (pc[w] = "mutate" /\ pc'[w] = "lock")
       => /\ flock' = flock
          /\ w \notin flock
          /\ pending'[w].payload = serialise_entries(store'[w].entries)
    /\ (pc[w] = "replace" /\ pc'[w] = "unlock") => file' = JsonDump(pending[w].payload)

\* C26, amended: a mutating operation takes the file lock twice at most: once
\* around the read of the file, only when its store has not loaded and the file
\* exists, and once around the write; the map is mutated and serialised between
\* the two, with the file lock not held, and the file changes only in the
\* rename inside the second.
C26_TwoLockedSections ==
    /\ [](\A w \in Stores : w \in flock => pc[w] \in Section)
    /\ [][/\ \A w \in Stores : TwoLockedSections(w)
          /\ file' # file => \E w \in Stores : pc[w] = "replace" /\ pc'[w] = "unlock"]_vars

\* process 1, its store loaded from the file, is about to mutate its map while
\* process 2 holds the file lock for its write
C26_Witness ==
    /\ pc[1] = "mutate"
    /\ store[1].loaded
    /\ file # Absent
    /\ flock = {2}
    /\ pc[2] = "replace"

(***************************************************************************)
(* Properties of SpecP.  last' describes the call a step makes.            *)
(***************************************************************************)
\* what C14 asks of a call on a store that has loaded
Cached(op, arg, before, after, out) ==
    /\ out # Raise("RegistryCorruptedError")
    /\ op \in {"get", "list"} => Read(op, arg, before.entries, after.entries, out)

\* C14: the map of a store that has loaded changes only by that store's own add,
\* update, remove, sync or reload; whatever another process or program has put
\* in the file since, get and list answer from the map and no call on the store
\* other than reload reads the file.
C14_MapIsACache ==
    [][/\ \A s \in Stores :
            (store[s].loaded /\ store'[s] # store[s])
            => /\ last'.s = s
               /\ last'.op \in {"add", "update", "remove", "sync", "reload"}
       /\ (last'.s \in Stores /\ last'.op # "reload" /\ store[last'.s].loaded)
          => Cached(last'.op, last'.arg, store[last'.s], store'[last'.s], last'.out)]_vars

\* get on process 1, which had loaded, returned None for a name that process 2
\* has written to the file since
C14_Witness ==
    /\ last.op = "get"
    /\ last.s = 1
    /\ last.out = Ok(None)
    /\ store[1].loaded
    /\ store[2].loaded
    /\ last.arg.name \in Keys(store[2].entries)
    /\ file = JsonDump(serialise_entries(store[2].entries))

\* what a get or list on a store that has not loaded returns: what the file holds
FromFile(op, arg, r, after, out) ==
    IF r.ok THEN Read(op, arg, r.val, after.entries, out) ELSE out = r

\* C15 as stated: reload leaves the loaded flag false and the map empty, and a
\* get or list on a store whose flag is false answers from what the file holds
\* at that call.
C15_ReloadIsLazy ==
    [][/\ last'.op = "reload" => store'[last'.s] = NewRegistry
       /\ (last'.op \in {"get", "list"} /\ ~store[last'.s].loaded)
          => FromFile(last'.op, last'.arg, read_payload(file, exists),
                      store'[last'.s], last'.out)]_vars

\* what reload leaves, given what the file holds
Reloaded(r, after, out) ==
    IF r.ok THEN out = Ok(None) /\ after = [entries |-> r.val, loaded |-> TRUE]
    ELSE out = r /\ after = NewRegistry

\* C15, amended: reload clears the map and reads the registry file within the
\* call: when it returns the map is what the file holds then, and a get or list
\* that follows answers from that map; when the read fails reload raises and
\* leaves the flag false and the map empty, and a get or list on a store whose
\* flag is false answers from what the file holds at that call.
C15_ReloadReads ==
    [][/\ last'.op = "reload"
          => /\ Reloaded(read_payload(file, exists), store'[last'.s], last'.out)
             /\ file' = file
       /\ (last'.op \in {"get", "list"} /\ last.op = "reload" /\ last.out.ok
           /\ last'.s = last.s)
          => /\ store[last'.s].loaded
             /\ Read(last'.op, last'.arg, store[last'.s].entries,
                     store'[last'.s].entries, last'.out)
       /\ (last'.op \in {"get", "list"} /\ ~store[last'.s].loaded)
          => FromFile(last'.op, last'.arg, read_payload(file, exists),
                      store'[last'.s], last'.out)]_vars

\* get right after reload on process 1 returned a record that process 2 had
\* written to the file
C15_Witness ==
    /\ last.op = "get"
    /\ last.s = 1
    /\ last.after.op = "reload"
    /\ last.after.ok
    /\ last.out.ok
    /\ last.out.val # None
    /\ store[2].loaded
    /\ file = JsonDump(serialise_entries(store[2].entries))

\* the call reads the registry file: the store has not loaded, or it is reload
Loads(s, op) == s \in Stores /\ (op = "reload" \/ ~store[s].loaded)

\* the file holds a JSON object
IsObject(f) == f # Absent /\ f.kind = "object"
\* a version that int() does not convert, or converts to another number
BadVersion(d) ==
    /\ "version" \in DOMAIN d
    /\ (~IntOf(d.version).ok \/ IntOf(d.version).val # REGISTRY_VERSION)
\* a record that is not an object, or has no location
BadRecord(r) == r = JsonScalar \/ "location" \notin DOMAIN r
\* environments that are not an object, or hold such a record
BadEnvironments(d) ==
    /\ "environments" \in DOMAIN d
    /\ (d.environments = JsonScalar
        \/ \E n \in DOMAIN d.environments : BadRecord(d.environments[n]))

\* the load failed: RegistryCorruptedError, the file and the store as they were
\* (reload has cleared the store)
LoadFailed(s, op) ==
    /\ last'.out = Raise("RegistryCorruptedError")
    /\ file' = file
    /\ store'[s] = IF op = "reload" THEN NewRegistry ELSE store[s]

\* files that differ from what _serialise_entries writes by the version alone:
\* none, the text "1", a number with a fraction whose integer part is 1
ReadAsVersionOne ==
    {JsonDump(Without(Versioned(JsonInt(REGISTRY_VERSION)), "version")),
     JsonDump(Versioned(JsonDigits(REGISTRY_VERSION))),
     JsonDump(Versioned(JsonFloat(REGISTRY_VERSION)))}

\* C16 as stated: a load fails with RegistryCorruptedError whenever the payload
\* has no version field or has one that is not the integer 1.
C16_VersionRequired ==
    [][(/\ Loads(last'.s, last'.op)
        /\ IsObject(file)
        /\ ("version" \notin DOMAIN file.data
            \/ file.data.version # JsonInt(REGISTRY_VERSION)))
       => last'.out = Raise("RegistryCorruptedError")]_vars

\* C16, amended: a load fails with RegistryCorruptedError, the file left as it
\* is, whenever the payload has a version that int() does not convert or converts
\* to a number other than 1; a payload without a version field, or with one that
\* int() converts to 1, is read as version 1.
C16_VersionChecked ==
    [][(Loads(last'.s, last'.op) /\ IsObject(file))
       => /\ BadVersion(file.data) => LoadFailed(last'.s, last'.op)
          /\ file \in ReadAsVersionOne
             => /\ last'.out # Raise("RegistryCorruptedError")
                /\ store'[last'.s].loaded]_vars

\* get on a store that had not loaded raised on a file of version 2
C16_Witness ==
    /\ last.op = "get"
    /\ last.s = 1
    /\ last.out = Raise("RegistryCorruptedError")
    /\ ~store[1].loaded
    /\ file = JsonDump(Versioned(JsonInt(2)))

LoadedRecord(s, op, arg) ==
    /\ last'.out # Raise("RegistryCorruptedError")
    /\ store'[s].loaded
    /\ (op \in {"get", "list"} => Lookup(store'[s].entries, "a").name = "a")

CorruptedFile(f) ==
    /\ f # Absent
    /\ f.kind # "object" \/ BadVersion(f.data) \/ BadEnvironments(f.data)

Readable(f) == f = Absent \/ read_payload(f, exists).ok

\* the steps of the loaded flag of store s
LoadedFlag(s) ==
    /\ (~store[s].loaded /\ store'[s].loaded) => (last'.s = s /\ Readable(file))
    /\ (store[s].loaded /\ ~store'[s].loaded)
       => (last'.s = s /\ last'.op = "reload" /\ ~Readable(file))
    /\ (last'.s = s /\ (last'.op = "reload" \/ ~store[s].loaded))
       => IF Readable(file) THEN store'[s].loaded
          ELSE store'[s] = NewRegistry /\ ~last'.out.ok

\* C29: the loaded flag of a store becomes true only in a call on that store that
\* completes a load (the file absent, or read without error), stays true across
\* every call but reload, and reload ends loaded from the file it reads; a load
\* that fails, in reload or in any call on a store that has not loaded, leaves
\* the store not loaded with an empty map, so that the next call loads again.
C29_LoadedStateMachine == [][\A s \in Stores : LoadedFlag(s)]_vars

\* reload on store 1 failed on a corrupted file and left it not loaded, store 2
\* being loaded
C29_Witness ==
    /\ last.op = "reload"
    /\ last.s = 1
    /\ last.out = Raise("RegistryCorruptedError")
    /\ store[1] = NewRegistry
    /\ store[2].loaded

\* the key of every pair of the map is the name of its entry, and the name is
\* trimmed and not blank
KeyedByName(entries) ==
    \A i \in DOMAIN entries :
        /\ entries[i].v.name = entries[i].k
        /\ Strip(entries[i].k) = entries[i].k
        /\ entries[i].k # ""

\* C31: in every store each key of the in-memory map is the name of the entry it
\* maps to, trimmed and not blank: after add, after update, and after the load
\* of a file in which a record's name field is not its key under environments.
C31_KeyedByName == \A s \in Stores : KeyedByName(store[s].entries)

\* the file holds one record under the key b whose name field is " a ", and a
\* store that loaded it holds one entry under the key a
C31_Witness ==
    /\ file = JsonDump(Renamed("b", " a "))
    /\ \E s \in Stores : store[s].loaded /\ Keys(store[s].entries) = {"a"}

(***************************************************************************)
(* SpecT: two threads call add and remove on one Registry.  The with-block *)
(* of a method runs under self._memory_lock and is one step; the call of   *)
(* _write_payload that follows it, outside the with-block, is another.     *)
(***************************************************************************)
Threads == {1, 2}
\* the Registry the threads share
Shared == 1

\* the record of the call that returned in the last step; clean tells that no
\* persistence write has failed so far
TCall(t, op, out, clean) == [op |-> op, s |-> t, out |-> out, clean |-> clean]

\* the with-block left by return or raise: the method ends here
TReturn(t, st, op, out) ==
    /\ store' = [store EXCEPT ![Shared] = st]
    /\ last' = TCall(t, op, out, last.clean)
    /\ UNCHANGED <<pc, pending>>

\* the with-block left at its end, the map changed to entries and serialised
TSerialised(t, op, entries) ==
    /\ store' = [store EXCEPT ![Shared] = [entries |-> entries, loaded |-> TRUE]]
    /\ pending' = [pending EXCEPT ![t] = [op |-> op, payload |-> serialise_entries(entries)]]
    /\ pc' = [pc EXCEPT ![t] = "write"]
    /\ last' = TCall(0, "", Ok(None), last.clean)

\* the with-block of add (383-390) and of remove (421-426), given _ensure_loaded
TBlockBody(t, op, arg, ld) ==
    IF ~ld.ok THEN TReturn(t, store[Shared], op, ld)
    ELSE IF op = "add"
    THEN IF ~arg.overwrite /\ arg.entry.name \in Keys(ld.val.entries)
         THEN TReturn(t, ld.val, op, Raise("EntryAlreadyExistsError"))
         ELSE TSerialised(t, op, Put(ld.val.entries, arg.entry.name, arg.entry))
    ELSE IF arg.name \notin Keys(ld.val.entries)
         THEN TReturn(t, ld.val, op, Ok(FALSE))
         ELSE TSerialised(t, op, Del(ld.val.entries, arg.name))

\* a thread takes self._memory_lock and runs the with-block of a method
TBlock(t, op, arg) ==
    /\ pc[t] = "idle"
    /\ TBlockBody(t, op, arg, ensure_loaded(store[Shared], file, exists))
    /\ UNCHANGED <<file, exists, tmp, flock, leftover>>

\* the end of the method, given what _write_payload did
TWritten(t, w) ==
    /\ file' = w.file
    /\ last' = TCall(t, pending[t].op,
                     IF w.out.ok THEN Ok(IF pending[t].op = "remove" THEN TRUE ELSE None)
                     ELSE w.out,
                     last.clean /\ w.out.ok)

\* self._write_payload(payload) after the with-block (392, 428), and the return
TWrite(t, fault) ==
    /\ pc[t] = "write"
    /\ TWritten(t, write_payload(pending[t].payload, file, fault))
    /\ pc' = [pc EXCEPT ![t] = "idle"]
    /\ pending' = [pending EXCEPT ![t] = None]
    /\ UNCHANGED <<store, exists, tmp, flock, leftover>>

InitT ==
    /\ store = [s \in Stores |-> NewRegistry]
    /\ file = Absent
    /\ exists = Dirs
    /\ last = TCall(0, "", Ok(None), TRUE)
    /\ pc = [t \in Threads |-> "idle"]
    /\ pending = [t \in Threads |-> None]
    /\ tmp = [n \in TmpNames |-> Absent]
    /\ flock = {}
    /\ leftover = 0

NextT ==
    \/ \E t \in Threads, e \in WEntries, ow \in BOOLEAN :
          TBlock(t, "add", [entry |-> e, overwrite |-> ow])
    \/ \E t \in Threads, n \in Names : TBlock(t, "remove", [name |-> n])
    \/ \E t \in Threads, f \in Faults : TWrite(t, f)

SpecT == InitT /\ [][NextT]_vars

\* the file holds the serialisation of the map, an absent file standing for the
\* empty map
FileIsMap(f, entries) ==
    IF f = Absent THEN entries = <<>> ELSE f = JsonDump(serialise_entries(entries))

\* C11: once every call of the threads that share a store has returned, no write
\* having failed, the registry file equals the serialisation of the store's map.
C11_WritesInMutationOrder ==
    ((\A t \in Threads : pc[t] = "idle") /\ last.clean)
    => FileIsMap(file, store[Shared].entries)

(***************************************************************************)
(* SpecL: the locks.  Two threads of one process and one thread of another *)
(* call add, get and reload; the memory lock, the file lock of the load    *)
(* and the file lock of the write are taken and released step by step.     *)
(*   pc: idle -> mutex -> entered -> lopen -> lflock -> read -> block      *)
(*       -> lock -> wflock -> write -> unlock -> idle                      *)
(***************************************************************************)
LThreads == {1, 2, 3}
\* the process, and so the Registry, of a thread
ProcOf(t) == IF t = 3 THEN 2 ELSE 1
\* a call of add, get or reload; overwrite is the argument of add
LOp(op, overwrite) == [op |-> op, overwrite |-> overwrite]
\* the calls each thread makes
LOps(t) ==
    IF t = 1 THEN {LOp("add", FALSE), LOp("reload", FALSE)}
    ELSE IF t = 2 THEN {LOp("get", FALSE)}
    ELSE {LOp("add", TRUE)}
\* the entry the threads add
LEntry == CHOOSE e \in WEntries : e.name = "a"
\* what the registry file can hold: nothing, the text another program left, or
\* the payload add wrote
LFiles == {Absent, [kind |-> "garbage"],
           JsonDump(serialise_entries(Put(<<>>, LEntry.name, LEntry)))}
\* _read_payload on each of these files
LReadPayload == [f \in LFiles |-> read_payload(f, Dirs)]

\* where a thread holds self._memory_lock: inside the with-block
InBlock == {"entered", "lopen", "lflock", "read", "block"}
HoldsMutex(t) == pc[t] \in InBlock

\* the record of the call that returned in the last step; locked tells whether
\* the thread held the file lock when it left its locked section
LCall(t, out, locked) == [op |-> "return", s |-> t, out |-> out, locked |-> locked]
LQuiet == [op |-> "", s |-> 0, out |-> Ok(None), locked |-> FALSE]

\* a step inside a call
LGoto(t, to) ==
    /\ pc' = [pc EXCEPT ![t] = to]
    /\ last' = LQuiet

\* the call returns or raises, leaving the with-blocks it is in
LReturn(t, out, locked) ==
    /\ pc' = [pc EXCEPT ![t] = "idle"]
    /\ pending' = [pending EXCEPT ![t] = None]
    /\ last' = LCall(t, out, locked)

\* a method is called and waits for self._memory_lock
LStart(t, op) ==
    /\ pc[t] = "idle"
    /\ pending' = [pending EXCEPT ![t] = [op |-> op.op, overwrite |-> op.overwrite,
                                           payload |-> None, out |-> Ok(None)]]
    /\ LGoto(t, "mutex")
    /\ UNCHANGED <<store, file, exists, tmp, flock, leftover>>

\* with self._memory_lock: the lock is free, or held by this thread
LEnter(t) ==
    /\ pc[t] = "mutex"
    /\ \A u \in LThreads \ {t} : ProcOf(u) = ProcOf(t) => ~HoldsMutex(u)
    /\ LGoto(t, "entered")
    /\ UNCHANGED <<store, file, exists, pending, tmp, flock, leftover>>

\* _ensure_loaded down to _file_lock, on the store st
LEnsureBody(t, p, st) ==
    IF st.loaded THEN store' = [store EXCEPT ![p] = st] /\ LGoto(t, "block")
    ELSE IF file = Absent
    THEN /\ store' = [store EXCEPT ![p] = [entries |-> <<>>, loaded |-> TRUE]]
         /\ LGoto(t, "block")
    ELSE store' = [store EXCEPT ![p] = st] /\ LGoto(t, "lopen")

\* the head of the with-block: reload clears the store, then _ensure_loaded
LEnsure(t) ==
    /\ pc[t] = "entered"
    /\ LEnsureBody(t, ProcOf(t),
                   IF pending[t].op = "reload" THEN NewRegistry ELSE store[ProcOf(t)])
    /\ UNCHANGED <<file, exists, pending, tmp, flock, leftover>>

\* _file_lock in _ensure_loaded: the lock file is opened
LOpenLock(t) ==
    /\ pc[t] = "lopen"
    /\ LGoto(t, "lflock")
    /\ UNCHANGED <<store, file, exists, pending, tmp, flock, leftover>>

\* _file_lock in _ensure_loaded: the open of the lock file raises
LOpenLockFails(t) ==
    /\ pc[t] = "lopen"
    /\ LReturn(t, Raise("OSError"), FALSE)
    /\ UNCHANGED <<store, file, exists, tmp, flock, leftover>>

\* flock(LOCK_EX) returns once no other handle holds the lock
LAcquire(t) ==
    /\ pc[t] = "lflock"
    /\ flock = {}
    /\ flock' = {t}
    /\ LGoto(t, "read")
    /\ UNCHANGED <<store, file, exists, pending, tmp, leftover>>

\* flock raises OSError, which is logged
LAcquireFails(t) ==
    /\ pc[t] = "lflock"
    /\ LGoto(t, "read")
    /\ UNCHANGED <<store, file, exists, pending, tmp, flock, leftover>>

\* the end of _ensure_loaded, given the outcome of _read_payload
LReadBody(t, p, payload) ==
    IF ~payload.ok
    THEN LReturn(t, payload, t \in flock) /\ UNCHANGED store
    ELSE /\ store' = [store EXCEPT ![p] = [entries |-> payload.val, loaded |-> TRUE]]
         /\ LGoto(t, "block")
         /\ UNCHANGED pending

\* a variant of _file_lock that does not unlock when _read_payload is done
LReadKeepsLock(t) ==
    /\ pc[t] = "read"
    /\ UNCHANGED flock
    /\ LReadBody(t, ProcOf(t), LReadPayload[file])
    /\ UNCHANGED <<file, exists, tmp, leftover>>

\* _read_payload under _file_lock, and the unlock when the with-block is left
LRead(t) ==
    /\ pc[t] = "read"
    /\ flock' = flock \ {t}
    /\ LReadBody(t, ProcOf(t), LReadPayload[file])
    /\ UNCHANGED <<file, exists, tmp, leftover>>

\* the rest of the with-block: get and reload return, add raises on a name the
\* map holds, or changes the map, serialises it and leaves the with-block for
\* _write_payload
LBlockBody(t, p, op) ==
    IF op = "add" /\ ~pending[t].overwrite /\ LEntry.name \in Keys(store[p].entries)
    THEN LReturn(t, Raise("EntryAlreadyExistsError"), FALSE) /\ UNCHANGED store
    ELSE IF op = "add"
    THEN /\ store' = [store EXCEPT ![p].entries = Put(@, LEntry.name, LEntry)]
         /\ pending' = [pending EXCEPT ![t].payload =
                          serialise_entries(Put(store[p].entries, LEntry.name, LEntry))]
         /\ LGoto(t, "lock")
    ELSE LReturn(t, Ok(None), FALSE) /\ UNCHANGED store

LBlock(t) ==
    /\ pc[t] = "block"
    /\ LBlockBody(t, ProcOf(t), pending[t].op)
    /\ UNCHANGED <<file, exists, tmp, flock, leftover>>

\* _write_payload: _ensure_directory, and the lock file is opened
LWOpenLock(t) ==
    /\ pc[t] = "lock"
    /\ LGoto(t, "wflock")
    /\ UNCHANGED <<store, file, exists, pending, tmp, flock, leftover>>

\* _write_payload: _ensure_directory or the open of the lock file raises
LWOpenLockFails(t) ==
    /\ pc[t] = "lock"
    /\ LReturn(t, Raise("OSError"), FALSE)
    /\ UNCHANGED <<store, file, exists, tmp, flock, leftover>>

\* flock(LOCK_EX) in _write_payload returns once no other handle holds the lock
LWAcquire(t) ==
    /\ pc[t] = "wflock"
    /\ flock = {}
    /\ flock' = {t}
    /\ LGoto(t, "write")
    /\ UNCHANGED <<store, file, exists, pending, tmp, leftover>>

\* flock in _write_payload raises OSError, which is logged
LWAcquireFails(t) ==
    /\ pc[t] = "wflock"
    /\ LGoto(t, "write")
    /\ UNCHANGED <<store, file, exists, pending, tmp, flock, leftover>>

\* the body of _write_payload, from the temporary file to the rename or to the
\* except clause
LWrite(t, fault) ==
    /\ pc[t] = "write"
    /\ file' = write_payload(pending[t].payload, file, fault).file
    /\ pending' = [pending EXCEPT ![t].out =
                     write_payload(pending[t].payload, file, fault).out]
    /\ LGoto(t, "unlock")
    /\ UNCHANGED <<store, exists, tmp, flock, leftover>>

\* a variant of _file_lock whose finally clause leaves the lock to the handle
LUnlockKeepsLock(t) ==
    /\ pc[t] = "unlock"
    /\ UNCHANGED flock
    /\ LReturn(t, pending[t].out, t \in flock)
    /\ UNCHANGED <<store, file, exists, tmp, leftover>>

\* the finally clause of _file_lock and the close of the lock file: the lock is
\* released, and _write_payload returns or re-raises
LUnlock(t) ==
    /\ pc[t] = "unlock"
    /\ flock' = flock \ {t}
    /\ LReturn(t, pending[t].out, t \in flock)
    /\ UNCHANGED <<store, file, exists, tmp, leftover>>

\* another program leaves a text that is not JSON at the registry path
LCorrupt ==
    /\ file \notin {Absent, [kind |-> "garbage"]}
    /\ file' = [kind |-> "garbage"]
    /\ last' = LQuiet
    /\ UNCHANGED <<store, exists, pc, pending, tmp, flock, leftover>>

\* the steps of a thread that wait for nothing
LStep(t) ==
    \/ LEnsure(t)
    \/ LOpenLock(t)
    \/ LRead(t)
    \/ LBlock(t)
    \/ LWOpenLock(t)
    \/ \E fault \in Faults : LWrite(t, fault)
    \/ LUnlock(t)

\* the steps in which an operating system call fails
LFails(t) ==
    \/ LOpenLockFails(t)
    \/ LAcquireFails(t)
    \/ LWOpenLockFails(t)
    \/ LWAcquireFails(t)

InitL ==
    /\ store = [s \in Stores |-> NewRegistry]
    /\ file = Absent
    /\ exists = Dirs
    /\ last = LQuiet
    /\ pc = [t \in LThreads |-> "idle"]
    /\ pending = [t \in LThreads |-> None]
    /\ tmp = [n \in TmpNames |-> Absent]
    /\ flock = {}
    /\ leftover = 0

NextL ==
    \/ \E t \in LThreads : \E op \in LOps(t) : LStart(t, op)
    \/ \E t \in LThreads : LEnter(t)
    \/ \E t \in LThreads : LAcquire(t)
    \/ \E t \in LThreads : LWAcquire(t)
    \/ \E t \in LThreads : LStep(t)
    \/ \E t \in LThreads : LFails(t)
    \/ LCorrupt

\* the next step of a thread inside a call, when no system call fails
LRun(t) == LEnter(t) \/ LAcquire(t) \/ LWAcquire(t) \/ LStep(t)

\* the scheduler runs every thread that can take a step, and a lock that is
\* free again and again is granted to each thread that waits for it
LFairness == \A t \in LThreads : SF_vars(LRun(t))

SpecL == InitL /\ [][NextL]_vars /\ LFairness

(***************************************************************************)
(* env_manager.py                                                          *)
(***************************************************************************)
\* the characters of a Python version specifier: word characters, dot, hyphen,
\* a character outside the allow-list, and the line feed
WordChars == {"3", "p"}
LF == "<LF>"
Chars == WordChars \cup {".", "-", ";", LF}

\* every character of the text is in the class [\w\.\-]
AllAllowed(text) == \A i \in DOMAIN text : text[i] \in WordChars \cup {".", "-"}


\* re.match(r"^[\w\.\-]+$", text): "$" matches at the end of the text and
\* before a line feed that ends the text
ReMatch(text) ==
    /\ Len(text) > 0
    /\ \/ AllAllowed(text)
       \/ /\ Len(text) > 1
          /\ text[Len(text)] = LF
          /\ AllAllowed(SubSeq(text, 1, Len(text) - 1))

\* the python argument: None, or a text
PyNone == [given |-> FALSE, text |-> <<>>]
Py(text) == [given |-> TRUE, text |-> text]
\* bool(python): None and "" are false
Truthy(python) == python.given /\ Len(python.text) > 0

\* the command line create_environment builds
Cmd(python, env_path) ==
    [python |-> IF Truthy(python) THEN python ELSE PyNone, path |-> env_path]

\* what is at env_path when "uv venv" has exited: a complete environment, one
\* without pyvenv.cfg, without bin, without bin/python, or nothing
Layouts == {"venv", "no_cfg", "no_bin", "no_python", "nothing"}

\* validate_environment
validate_environment(layout) ==
    IF layout = "nothing" THEN FALSE
    ELSE IF layout = "no_cfg" THEN FALSE
    ELSE IF layout = "no_bin" THEN FALSE
    ELSE layout # "no_python"

\* get_python_version: the value of the version key of pyvenv.cfg, None without
\* the file or the key
get_python_version(layout, version) ==
    IF layout \in {"nothing", "no_cfg"} THEN NoVersion ELSE version

\* the outcome of create_environment: the command it ran (None when it ran
\* none), whether it called validate_environment, what it returned or raised
Created(cmd, validated, out) == [cmd |-> cmd, validated |-> validated, out |-> out]

\* a variant of create_environment that does not validate what the tool made
CreateRunNoValidation(name, env_path, python, tool, now, present) ==
    IF tool.exit # 0
    THEN Created(Cmd(python, env_path), FALSE, Raise("EnvironmentCreationError"))
    ELSE Created(Cmd(python, env_path), FALSE,
                 NewEntry(name, env_path, get_python_version(tool.layout, tool.version),
                          [kind |-> "aware", t |-> now, off |-> 0],
                          ~IsRelativeTo(env_path, managed_env_root), {}, present))

\* create_environment from subprocess.run on
CreateRun(name, env_path, python, tool, now, present) ==
    IF tool.exit # 0
    THEN Created(Cmd(python, env_path), FALSE, Raise("EnvironmentCreationError"))
    ELSE IF ~validate_environment(tool.layout)
    THEN Created(Cmd(python, env_path), TRUE, Raise("EnvironmentCreationError"))
    ELSE Created(Cmd(python, env_path), TRUE,
                 NewEntry(name, env_path, get_python_version(tool.layout, tool.version),
                          [kind |-> "aware", t |-> now, off |-> 0],
                          ~IsRelativeTo(env_path, managed_env_root), {}, present))

\* create_environment, given the outcome of normalize_env_path
CreateChecked(name, env_path, python, tool, now, present) ==
    IF ~env_path.ok THEN Created(None, FALSE, env_path)
    ELSE IF Truthy(python) /\ ~ReMatch(python.text)
    THEN Created(None, FALSE, Raise("ValueError"))
    ELSE CreateRun(name, env_path.val, python, tool, now, present)

\* the directories there are once the tool has run
AfterTool(present, env_path, tool) ==
    IF env_path.ok /\ tool.layout # "nothing" THEN present \cup {env_path.val} ELSE present

\* create_environment (tool: the exit status of "uv venv" and what it made)
create_environment(name, location, python, tool, now, present) ==
    CreateChecked(name, normalize_env_path(location), python, tool, now,
                  AfterTool(present, normalize_env_path(location), tool))

(***************************************************************************)
(* SpecF: the functions of path_utils.py and env_manager.py and            *)
(* EnvironmentEntry.with_update, applied to the inputs of the model        *)
(***************************************************************************)
\* the paths handed to the functions
Paths ==
    {ManagedDir, OtherDir, managed_env_root, Home, <<>>,
     <<"~", "envs", "e1">>, <<"e2">>, <<"..", "evil">>,
     <<"/", "w", "x", "..", "e2">>,
     <<"/", "h", "envs", "x", "..", "e1">>,
     <<"/", "h", "envs", NulPart>>, <<"/", "w", NulPart>>}

\* the keyword arguments with_update is called with
Changes ==
    {EmptyObject}
    \cup {[name |-> n] : n \in {" a ", "  ", "b"}}
    \cup {[location |-> l] : l \in {<<"~", "envs", "e1">>, <<"e2">>, <<>>,
                                    <<"/", "w", "x", "..", "e2">>}}
    \cup {[created_at |-> c] :
            c \in {None, IsoFormat(Naive(MaxHour)), IsoFormat(Aware(MaxHour, 1)),
                   Aware(MaxHour, 1)}}
    \cup {[metadata |-> m] : m \in {{}, Meta, {<<IntKey, "x">>}}}
    \cup {[name |-> " a ", location |-> <<"e2">>, python_version |-> "3.12"]}

\* the python arguments create_environment is called with
PythonSpecs ==
    {PyNone, Py(<<>>), Py(<<"3", ".", "3">>), Py(<<"p", "-", "3">>),
     Py(<<"3", ";">>), Py(<<";">>), Py(<<"3", LF>>), Py(<<LF>>),
     Py(<<"3", LF, "p">>)}

\* what "uv venv" does: its exit status, what it leaves at the path, and the
\* version it writes in pyvenv.cfg
Tools ==
    [exit : {0, 1}, layout : Layouts, version : {"3.11"}]
    \cup {[exit |-> 0, layout |-> "venv", version |-> NoVersion]}

\* the record of an application: the function, its arguments, its outcome, and
\* what else it did
Applied(op, arg, out, effect) ==
    [op |-> op, s |-> 0, arg |-> arg, out |-> out,
     after |-> [op |-> "", ok |-> FALSE], effect |-> effect]

\* entry.with_update(**changes), given what with_update yields
WithUpdateDone(e, changes, r) ==
    /\ last' = Applied("with_update", [self |-> e, changes |-> changes], r.out,
                       [self |-> r.self])
    /\ UNCHANGED <<store, file, exists, pc, pending, tmp, flock, leftover>>

WithUpdate(e, changes) == WithUpdateDone(e, changes, with_update(e, changes, exists))

ValidateSafePath(p, allow_outside_home) ==
    /\ last' = Applied("validate_safe_path",
                       [path |-> p, allow_outside_home |-> allow_outside_home],
                       validate_safe_path(p, allow_outside_home), NoArg)
    /\ UNCHANGED <<store, file, exists, pc, pending, tmp, flock, leftover>>

EnsureManagedEnvPath(p) ==
    /\ last' = Applied("ensure_managed_env_path", [path |-> p],
                       ensure_managed_env_path(p), NoArg)
    /\ UNCHANGED <<store, file, exists, pc, pending, tmp, flock, leftover>>

\* create_environment(name, location, python), given what it yields
CreateEnvironmentDone(arg, r) ==
    /\ last' = Applied("create_environment", arg, r.out,
                       [cmd |-> r.cmd, validated |-> r.validated])
    /\ exists' = IF r.cmd = None THEN exists
                 ELSE AfterTool(exists, normalize_env_path(arg.location), arg.tool)
    /\ UNCHANGED <<store, file, pc, pending, tmp, flock, leftover>>

CreateEnvironment(name, location, python, tool, now) ==
    CreateEnvironmentDone([name |-> name, location |-> location, python |-> python,
                           tool |-> tool],
                          create_environment(name, location, python, tool, now, exists))

InitF == Init

NextF ==
    \/ \E e \in Entries, changes \in Changes : WithUpdate(e, changes)
    \/ \E p \in Paths, allow \in BOOLEAN : ValidateSafePath(p, allow)
    \/ \E p \in Paths : EnsureManagedEnvPath(p)
    \/ \E name \in {"a", "  "}, location \in {ManagedDir, OtherDir, <<>>},
          python \in PythonSpecs, tool \in Tools :
          CreateEnvironment(name, location, python, tool, MaxHour)

SpecF == InitF /\ [][NextF]_vars

(***************************************************************************)
(* Properties of SpecF                                                     *)
(***************************************************************************)
\* the invariants of an entry: a trimmed name that is not blank, a normalised
\* absolute location, a timestamp in UTC, metadata with string keys
ValidEntry(x) ==
    /\ x.name # ""
    /\ x.name = Strip(x.name)
    /\ IsAbsolute(x.location)
    /\ normalize_env_path(x.location) = Ok(x.location)
    /\ x.created_at.kind \in {"none", "aware"}
    /\ (x.created_at.kind = "aware" => x.created_at.off = 0)
    /\ \A pair \in x.metadata : pair[1] # IntKey

\* the attributes that the changes do not name are those of the entry
Kept(e, changes, x) == \A k \in DOMAIN e \ DOMAIN changes : x[k] = e[k]

\* C21: with_update leaves the entry it is called on as it was, and what it
\* returns, when it returns, satisfies every invariant of an entry and has the
\* attributes of the entry wherever the changes name none.
C21_WithUpdateValidates ==
    last.op = "with_update"
    => /\ last.effect.self = last.arg.self
       /\ last.out.ok => /\ ValidEntry(last.out.val)
                         /\ Kept(last.arg.self, last.arg.changes, last.out.val)

\* with_update(name=" a ", location="e2", python_version="3.12") on an entry named
\* b has returned an entry named a
C21_Witness ==
    /\ last.op = "with_update"
    /\ last.arg.self.name = "b"
    /\ DOMAIN last.arg.changes = {"name", "location", "python_version"}
    /\ last.out.ok
    /\ last.out.val.name = "a"
    /\ last.out.val.location = Cwd \o <<"e2">>

\* where a path that is not empty points: "~" expanded, made absolute, ".." applied
Target(p) == Resolve(ExpandUser(p))
\* the path points at the managed root or below it
UnderManagedRoot(p) == p # <<>> /\ IsRelativeTo(Target(p), managed_env_root)
\* what validate_safe_path(allow_outside_home=True) refuses: a NUL byte, a ".."
\* component, the empty path
Unsafe(p) == HasNul(p) \/ ContainsTraversal(p) \/ p = <<>>

\* C22 as stated: ensure_managed_env_path returns the normalised path for every
\* path under the managed root and raises OutsideManagedRootError for every
\* other path, paths written with ".." included.
C22_EveryPath ==
    last.op = "ensure_managed_env_path"
    => last.out = IF UnderManagedRoot(last.arg.path) THEN Ok(Target(last.arg.path))
                  ELSE Raise("OutsideManagedRootError")

\* C22, amended: ensure_managed_env_path raises InvalidPathError for every path
\* with a NUL byte or a ".." component and for the empty path, wherever it
\* points; for every other path it returns the normalised path when that is the
\* managed root or below it and raises OutsideManagedRootError when it is not.
C22_SafePaths ==
    last.op = "ensure_managed_env_path"
    => last.out = IF Unsafe(last.arg.path) THEN Raise("InvalidPathError")
                  ELSE IF UnderManagedRoot(last.arg.path)
                       THEN Ok(Target(last.arg.path))
                  ELSE Raise("OutsideManagedRootError")

\* a path that points below the managed root through ".." was refused with
\* InvalidPathError
C22_Witness ==
    /\ last.op = "ensure_managed_env_path"
    /\ ContainsTraversal(last.arg.path)
    /\ UnderManagedRoot(last.arg.path)
    /\ last.out = Raise("InvalidPathError")

\* the path points at the home directory or below it
UnderHome(p) == IsRelativeTo(Target(p), Resolve(Home))

\* C23 as stated: validate_safe_path raises InvalidPathError for every path with
\* a NUL byte or a ".." component, and for every path that points outside the
\* home directory when allow_outside_home is false; in every other case it
\* returns the normalised absolute path.
C23_EveryOtherCase ==
    last.op = "validate_safe_path"
    => last.out = IF HasNul(last.arg.path) \/ ContainsTraversal(last.arg.path)
                  THEN Raise("InvalidPathError")
                  ELSE IF ~last.arg.allow_outside_home /\ ~UnderHome(last.arg.path)
                       THEN Raise("InvalidPathError")
                  ELSE Ok(Target(last.arg.path))

\* C23, amended: validate_safe_path raises InvalidPathError for every path with
\* a NUL byte or a ".." component and for the empty path, whatever
\* allow_outside_home is, and for every path that points outside the home
\* directory when allow_outside_home is false; in every other case it returns
\* the normalised absolute path.
C23_Validated ==
    last.op = "validate_safe_path"
    => last.out = IF Unsafe(last.arg.path) THEN Raise("InvalidPathError")
                  ELSE IF ~last.arg.allow_outside_home /\ ~UnderHome(last.arg.path)
                       THEN Raise("InvalidPathError")
                  ELSE Ok(Target(last.arg.path))

\* the empty path was refused although paths outside the home directory were
\* allowed
C23_Witness ==
    /\ last.op = "validate_safe_path"
    /\ last.arg.path = <<>>
    /\ last.arg.allow_outside_home
    /\ last.out = Raise("InvalidPathError")

\* C24: create_environment never runs the tool with a python specifier that has
\* a character other than word characters, dot and hyphen: with such a specifier
\* it raises and has run no command.
C24_SpecifierValidatedFirst ==
    (/\ last.op = "create_environment"
     /\ last.arg.python.given
     /\ ~AllAllowed(last.arg.python.text))
    => /\ last.effect.cmd = None
       /\ ~last.out.ok

\* what C25 asks of a create_environment that ran the tool
ToolThenValidation(tool, validated, out) ==
    /\ out.ok => (tool.exit = 0 /\ validated /\ tool.layout = "venv")
    /\ tool.exit # 0 => (out = Raise("EnvironmentCreationError") /\ ~validated)
    /\ (tool.exit = 0 /\ tool.layout # "venv")
       => (out = Raise("EnvironmentCreationError") /\ validated)

\* C25: create_environment returns an entry only when it ran the tool, the tool
\* exited 0 and validate_environment, called after that, passed; when the tool
\* exits with another status it raises EnvironmentCreationError without
\* validating, and when the validation fails after exit 0 it raises
\* EnvironmentCreationError.
C25_ToolThenValidation ==
    last.op = "create_environment"
    => IF last.effect.cmd = None THEN ~last.out.ok /\ ~last.effect.validated
       ELSE ToolThenValidation(last.arg.tool, last.effect.validated, last.out)

\* the tool exited 0, left an environment without bin/python, and
\* create_environment raised EnvironmentCreationError
C25_Witness ==
    /\ last.op = "create_environment"
    /\ last.effect.cmd # None
    /\ last.arg.tool.exit = 0
    /\ last.arg.tool.layout = "no_python"
    /\ last.effect.validated
    /\ last.out = Raise("EnvironmentCreationError")

(***************************************************************************)
(* Properties of SpecL                                                     *)
(***************************************************************************)
\* the thread is inside a with-block of _file_lock
InFileLock(t) == pc[t] \in {"read", "write", "unlock"}
\* the thread waits for the file lock
WaitsForFileLock(t) == pc[t] \in {"lflock", "wflock"}

CanStep == \E t \in LThreads : ENABLED LRun(t)

\* C30: whenever a call is under way some thread can take a step, and every call
\* that has started returns or raises.
C30_NoDeadlockAndTermination ==
    /\ []((\E t \in LThreads : pc[t] # "idle") => CanStep)
    /\ \A t \in LThreads : (pc[t] # "idle") ~> (pc[t] = "idle")

\* thread 1 waits for the memory lock that thread 2 holds, thread 2 waits for the
\* file lock that the thread of the other process holds for its write
C30_Witness ==
    /\ pc[1] = "mutex"
    /\ pc[2] = "lflock"
    /\ pc[3] = "write"
    /\ flock = {3}

====
